---- MODULE Spec2Model ----
(***************************************************************************)
(* Build orchestration engine of DroidForge Studio: the file-backed Job    *)
(* Store (jobs.json), the submission path createJob, and the single-flag   *)
(* Queue Worker processQueue (lib/buildQueue); the Quota Ledger            *)
(* (lib/buildQuota); the Build Pipeline (lib/buildRunner).  Each part has  *)
(* its specification; the variables of the other parts stay as they begin. *)
(*                                                                         *)
(* The program runs on one JavaScript event loop.  Every `await` on the    *)
(* file system is a point where other requests run, so each read of        *)
(* jobs.json and each write of it is one atomic step, and the code that    *)
(* runs synchronously after an awaited read is separated from the instant  *)
(* the data was read.  jobs.json is never locked.                          *)
(***************************************************************************)
EXTENDS Integers, Sequences, FiniteSets, TLC

\* Number of submissions (createJob calls) explored.
MaxJobs == 2
\* Largest value of the millisecond clock Date.now().
MaxTime == 2
\* Number of processQueue activations the model can hold at once.
MaxPasses == 2

\* consumeQuota calls that can be under way at once.
MaxCallers == 2
\* Hours after the first for which usage.json keeps buckets.
MaxTicks == 2
\* consumeQuota calls made while requests overlap.
MaxCalls == 2
\* Allowed calls explored per weekly counter when requests come one at a time.
MaxWeekly == 16
\* Calls counted from one address within an hour.
MaxHourly == 31

JobIds == 1..MaxJobs
PassIds == 1..MaxPasses

VARIABLES
  now,          \* the last reading of Date.now()
  jobsFile,     \* contents of jobs.json: a sequence of BuildJob records
  isProcessing, \* the module-level flag
  queueDirs,    \* ids j for which queue/<j>/input.zip exists
  artifactDirs, \* ids j for which artifacts/<j>/<apk> exists
  nextId,       \* next unused job id (randomUUID never repeats)
  cpc,          \* createJob call of job j: "idle", "staged", "read", "done"
  ctime,        \* createdAt taken by the createJob call of job j
  cjobs,        \* `jobs` local of the createJob call of job j
  wpc,          \* position of pass p in processQueue
  wjobs,        \* `jobs` local of pass p (line 853)
  wjob,         \* record pass p is handing to updateJob
  ujobs,        \* `jobs` local of the updateJob call made by pass p
  lastWritten,  \* last status a processQueue pass wrote to jobs.json for job j
  lastCall,     \* outcome of the most recent processQueue call
  passAlone,    \* the latest pass began with no submission in flight, and none has run since
  passQueued    \* ids that were queued in jobs.json when the latest pass began

vars == <<now, jobsFile, isProcessing, queueDirs, artifactDirs, nextId, cpc, ctime,
          cjobs, wpc, wjobs, wjob, ujobs, lastWritten, lastCall, passAlone, passQueued>>

VARIABLES
  usageFile,    \* contents of usage.json
  clock,        \* the wall clock, in hours
  qcall,        \* consumeQuota call c: position, parameters, locals, result
  granted,      \* what usage.json would hold had every allowed call been counted
  asked,        \* consumeQuota calls counted so far
  lastReturn    \* what the latest ledger call gave its caller, until the next consumeQuota

quotaVars == <<usageFile, clock, qcall, granted, asked, lastReturn>>

VARIABLES
  benv,         \* the build engine's installation: signer JAR, template, toolchain root
  bundle,       \* the submission: the bundle's marker and the keystore fields
  bpc,          \* position of the worker in the job and of runAndroidBuild in its stages
  tempDir,      \* the pipeline's working directory exists
  invoked,      \* external tools run so far, in order
  thrown,       \* message of the error runAndroidBuild or the worker's try block threw
  sha256,       \* hash runAndroidBuild returns
  bjob,         \* the job's record in jobs.json
  bqueueDir,    \* queue/<id> exists
  bartifact,    \* artifacts/<id>/<apk> exists
  command       \* the signer command: the APK it is given and its keystore flags

buildVars == <<benv, bundle, bpc, tempDir, invoked, thrown, sha256, bjob, bqueueDir,
               bartifact, command>>

VARIABLES
  post          \* POST /api/builds request r: position, file field, job, response

allVars == <<vars, quotaVars, buildVars, post>>

(***************************************************************************)
(* BuildJob records.  An optional field that is undefined is 0 for a       *)
(* timestamp and "" for error and artifact.                                *)
(***************************************************************************)
Terminal == {"completed", "failed"}

NoJob == [id |-> 0, status |-> "none", createdAt |-> 0, startedAt |-> 0,
          completedAt |-> 0, error |-> "", artifact |-> ""]

queuedJob(id, t) == [id |-> id, status |-> "queued", createdAt |-> t, startedAt |-> 0,
                     completedAt |-> 0, error |-> "", artifact |-> ""]

runningJob(next, t) == [next EXCEPT !.status = "running", !.startedAt = t, !.error = ""]

completedJob(running, t) ==
  [running EXCEPT !.status = "completed", !.completedAt = t, !.artifact = "apk"]

failedJobNoError(running, t) == [running EXCEPT !.status = "failed", !.completedAt = t]

failedJob(running, t) ==
  [running EXCEPT !.status = "failed", !.completedAt = t, !.error = "Build failed"]

(***************************************************************************)
(* jobs.filter(job => job.status === 'queued')                             *)
(*     .sort((a, b) => a.createdAt - b.createdAt)[0]                       *)
(* Array.prototype.sort is stable: equal createdAt keep their list order.  *)
(***************************************************************************)
IsQueuedOrRunning(job) == job.status \in {"queued", "running"}

IsQueued(job) == job.status = "queued"

\* The two comparators of the module: (a, b) => a.createdAt - b.createdAt in
\* processQueue and (a, b) => b.createdAt - a.createdAt in listJobs.
Ascending == 1
Descending == -1
compare(a, b, order) ==
  IF order = Ascending THEN a.createdAt - b.createdAt ELSE b.createdAt - a.createdAt

\* Stable insertion: job goes before the first element it compares below.
RECURSIVE InsertBy(_, _, _)
InsertBy(sorted, job, order) ==
  IF sorted = <<>> THEN <<job>>
  ELSE IF compare(job, Head(sorted), order) < 0 THEN <<job>> \o sorted
       ELSE <<Head(sorted)>> \o InsertBy(Tail(sorted), job, order)

RECURSIVE SortBy(_, _)
SortBy(jobs, order) ==
  IF jobs = <<>> THEN <<>>
  ELSE InsertBy(SortBy(SubSeq(jobs, 1, Len(jobs) - 1), order), jobs[Len(jobs)], order)

First(jobs) == IF jobs = <<>> THEN NoJob ELSE jobs[1]

nextQueuedNewest(jobs) == First(SortBy(SelectSeq(jobs, IsQueued), Descending))

nextQueuedHeadOnly(jobs) == IF jobs # <<>> /\ IsQueued(jobs[1]) THEN jobs[1] ELSE NoJob

nextQueued(jobs) == First(SortBy(SelectSeq(jobs, IsQueued), Ascending))

\* listJobs, lines 773-776: the list read, sorted newest first (a stable sort).
listJobs(jobs) == SortBy(jobs, Descending)

(***************************************************************************)
(* updateJob: findIndex by id; absent -> return without writing; present   *)
(* -> replace the element and write the whole list read.                   *)
(***************************************************************************)
findIndex(jobs, id) ==
  IF \E i \in 1..Len(jobs) : jobs[i].id = id
  THEN CHOOSE i \in 1..Len(jobs) :
         jobs[i].id = id /\ \A k \in 1..(i - 1) : jobs[k].id # id
  ELSE 0

replaced(jobs, job) == [jobs EXCEPT ![findIndex(jobs, job.id)] = job]

\* Stored status of job id, "absent" when jobs.json holds no record of it (getJob -> null).
getJob(jobs, id) == IF findIndex(jobs, id) = 0 THEN NoJob ELSE jobs[findIndex(jobs, id)]
StatusOf(jobs, id) == IF findIndex(jobs, id) = 0 THEN "absent" ELSE getJob(jobs, id).status

(***************************************************************************)
(* Initial state: a fresh process with an empty store (ensureStore writes  *)
(* "[]" to jobs.json on first use).                                        *)
(***************************************************************************)
(***************************************************************************)
(* Quota Ledger (lib/buildQuota): usage.json and the calls consumeQuota    *)
(* and getQuotaSnapshot.  usage.json is read whole and written whole and   *)
(* is never locked; each readUsage and each writeUsage is one step.        *)
(***************************************************************************)
\* Callers of the ledger; "" is an identity the request did not carry.
UserIds == {"", "u1", "u2"}
DeviceIds == {"", "d1"}
Ips == {"", "a1"}
Plans == {"free", "pro", "studio"}
Callers == 1..MaxCallers

\* The clock counts hours from 1970-01-01T00:00Z, a Thursday.  The runs begin
\* on Sunday 1970-01-04 at 22:00, two hours before a Monday.
StartHour == 4 * 24 - 2
Hours == StartHour..(StartHour + MaxTicks)

\* getWeekKey, lines 58-64: the date of the Monday on or before `hour`, as a
\* day number.  getUTCDay() of day 0 is 4.
getWeekKeySundayStart(hour) ==
  LET date == hour \div 24
      day == (date + 4) % 7
  IN date - day

getWeekKey(hour) ==
  LET date == hour \div 24
      day == (date + 4) % 7
      diff == (day + 6) % 7
  IN date - diff

\* getHourKey, lines 72-75: the ISO timestamp cut after the hour.
getHourKey(hour) == hour

WeekKeys == {getWeekKey(h) : h \in Hours}
HourKeys == {getHourKey(h) : h \in Hours}

\* The store ensureStore creates (lines 30-36); a missing counter reads as 0.
EmptyUsage == [user |-> [u \in UserIds |-> [w \in WeekKeys |-> 0]],
               device |-> [d \in DeviceIds |-> [w \in WeekKeys |-> 0]],
               ipHourly |-> [a \in Ips |-> [h \in HourKeys |-> 0]]]

\* getLimitForPlan, lines 77-81; null is NoLimit.
NoLimit == -1
FreeLimit == 3
ProLimit == 15
IP_HOURLY_LIMIT == 30

getLimitForPlanFreeFour(plan) ==
  IF plan = "studio" THEN NoLimit ELSE IF plan = "pro" THEN ProLimit ELSE FreeLimit + 1

getLimitForPlanProAsFree(plan) ==
  IF plan = "studio" THEN NoLimit ELSE FreeLimit

getLimitForPlan(plan) ==
  IF plan = "studio" THEN NoLimit ELSE IF plan = "pro" THEN ProLimit ELSE FreeLimit

\* getScopeCount, lines 83-86, and getIpHourlyCount, lines 94-97.
getScopeCount(usage, scope, id, key) ==
  IF id = "" THEN 0 ELSE usage[scope][id][key]

getIpHourlyCount(usage, ip, hourKey) ==
  IF ip = "" THEN 0 ELSE usage.ipHourly[ip][hourKey]

\* incrementScope, lines 88-92, and incrementIpHourly, lines 99-103.
incrementScopeSharedEmpty(usage, scope, id, key) ==
  [usage EXCEPT ![scope][id][key] = @ + 1]

incrementScope(usage, scope, id, key) ==
  IF id = "" THEN usage ELSE [usage EXCEPT ![scope][id][key] = @ + 1]

incrementIpHourly(usage, ip, hourKey) ==
  IF ip = "" THEN usage ELSE [usage EXCEPT !.ipHourly[ip][hourKey] = @ + 1]

Max(a, b) == IF a >= b THEN a ELSE b

\* A QuotaSnapshot, lines 121-133; remaining is NoLimit when limit is null.
NoSnapshot == [plan |-> "", limit |-> 0, used |-> 0, remaining |-> 0, weekStart |-> 0]

getQuotaSnapshotUnclamped(usage, userId, deviceId, plan, hour) ==
  LET weekKey == getWeekKey(hour)
      limit == getLimitForPlan(plan)
      used == Max(getScopeCount(usage, "user", userId, weekKey),
                  getScopeCount(usage, "device", deviceId, weekKey))
  IN [plan |-> plan, limit |-> limit, used |-> used,
      remaining |-> IF limit = NoLimit THEN NoLimit ELSE limit - used,
      weekStart |-> weekKey]

getQuotaSnapshot(usage, userId, deviceId, plan, hour) ==
  LET weekKey == getWeekKey(hour)
      limit == getLimitForPlan(plan)
      userCount == getScopeCount(usage, "user", userId, weekKey)
      deviceCount == getScopeCount(usage, "device", deviceId, weekKey)
      used == Max(userCount, deviceCount)
  IN [plan |-> plan, limit |-> limit, used |-> used,
      remaining |-> IF limit = NoLimit THEN NoLimit ELSE Max(limit - used, 0),
      weekStart |-> weekKey]

\* What getQuotaSnapshot leaves in usage.json: lines 107-134 hold no writeUsage.
storeAfterSnapshotCounting(usage, userId, deviceId, ip, hour) ==
  incrementIpHourly(
    incrementScope(incrementScope(usage, "user", userId, getWeekKey(hour)),
                   "device", deviceId, getWeekKey(hour)),
    ip, getHourKey(hour))

storeAfterSnapshot(usage, userId, deviceId, ip, hour) == usage

\* consumeQuota, lines 143-164: the synchronous part between readUsage and the
\* next await.  `usage` is what readUsage returned.  The result tells the
\* outcome, the in-memory store after lines 162-164, and whether the call goes
\* on to writeUsage (line 165) or straight to getQuotaSnapshot.
Outcome(allowed, reason, usage, writes) ==
  [allowed |-> allowed, reason |-> reason, usage |-> usage, writes |-> writes]

counted(usage, userId, deviceId, ip, weekKey, hourKey) ==
  incrementIpHourly(
    incrementScope(incrementScope(usage, "user", userId, weekKey),
                   "device", deviceId, weekKey),
    ip, hourKey)

\* Line 152 and line 157: the two refusals.
ipLimitedAbove(ipHourlyCount) == ipHourlyCount > IP_HOURLY_LIMIT

ipLimited(ipHourlyCount) == ipHourlyCount >= IP_HOURLY_LIMIT

weeklyLimited(limit, maxCount) == limit # NoLimit /\ maxCount >= limit

decideWeeklyFirst(usage, userId, deviceId, ip, plan, hour) ==
  LET weekKey == getWeekKey(hour)
      hourKey == getHourKey(hour)
      limit == getLimitForPlan(plan)
      maxCount == Max(getScopeCount(usage, "user", userId, weekKey),
                      getScopeCount(usage, "device", deviceId, weekKey))
  IN IF weeklyLimited(limit, maxCount)
     THEN Outcome(FALSE, "weekly-limit", usage, FALSE)
     ELSE IF ipLimited(getIpHourlyCount(usage, ip, hourKey))
          THEN Outcome(FALSE, "ip-rate-limit", usage, FALSE)
          ELSE Outcome(TRUE, "", counted(usage, userId, deviceId, ip, weekKey, hourKey),
                       TRUE)

decideCountFirst(usage, userId, deviceId, ip, plan, hour) ==
  LET weekKey == getWeekKey(hour)
      hourKey == getHourKey(hour)
      limit == getLimitForPlan(plan)
      maxCount == Max(getScopeCount(usage, "user", userId, weekKey),
                      getScopeCount(usage, "device", deviceId, weekKey))
      after == counted(usage, userId, deviceId, ip, weekKey, hourKey)
  IN IF ipLimited(getIpHourlyCount(usage, ip, hourKey))
     THEN Outcome(FALSE, "ip-rate-limit", after, TRUE)
     ELSE IF weeklyLimited(limit, maxCount)
          THEN Outcome(FALSE, "weekly-limit", after, TRUE)
          ELSE Outcome(TRUE, "", after, TRUE)

decide(usage, userId, deviceId, ip, plan, hour) ==
  LET weekKey == getWeekKey(hour)
      hourKey == getHourKey(hour)
      limit == getLimitForPlan(plan)
      userCount == getScopeCount(usage, "user", userId, weekKey)
      deviceCount == getScopeCount(usage, "device", deviceId, weekKey)
      ipHourlyCount == getIpHourlyCount(usage, ip, hourKey)
      maxCount == Max(userCount, deviceCount)
  IN IF ipLimited(ipHourlyCount)
     THEN Outcome(FALSE, "ip-rate-limit", usage, FALSE)
     ELSE IF weeklyLimited(limit, maxCount)
          THEN Outcome(FALSE, "weekly-limit", usage, FALSE)
          ELSE Outcome(TRUE, "", counted(usage, userId, deviceId, ip, weekKey, hourKey),
                       TRUE)

\* A consumeQuota call that is not under way.
NoCall == [pc |-> "idle", userId |-> "", deviceId |-> "", ip |-> "", plan |-> "",
           hour |-> 0, usage |-> EmptyUsage, allowed |-> FALSE, reason |-> ""]

\* What a ledger call hands back: consumeQuota's { allowed, reason, snapshot }
\* or the snapshot alone, with the parameters of the call.
NoReturn == [call |-> "none", userId |-> "", deviceId |-> "", ip |-> "", plan |-> "",
             allowed |-> FALSE, reason |-> "", snapshot |-> NoSnapshot]

QuotaInit ==
  /\ usageFile = EmptyUsage
  /\ clock = StartHour
  /\ qcall = [c \in Callers |-> NoCall]
  /\ granted = EmptyUsage
  /\ asked = 0
  /\ lastReturn = NoReturn

(***************************************************************************)
(* Build Pipeline (lib/buildRunner, runAndroidBuild) as the worker runs it *)
(* for one job.                                                            *)
(***************************************************************************)
\* Messages of the errors runAndroidBuild throws, cut to their first words.
SignerMissing == "APK signer JAR not found."
TemplateMissing == "Android template missing."
ToolchainMissing == "ANDROID_HOME or ANDROID_SDK_ROOT is not set."
NoApk == "Gradle build completed but no APK was found in the release output."
NoSignedApk == "Failed to generate signed APK."
\* A child process that exits non-zero, and a file operation that fails.
CommandFailed == "Command failed"
IoError == "I/O error"

\* Line 200: the hash when the verifier's report gives none.
Unknown == "Unknown"

\* An installation with everything in place, and the job as createJob leaves it.
Installed == [signerJar |-> TRUE, template |-> TRUE, androidHome |-> TRUE]

\* The signer command is the sequence of words the shell makes of the command
\* line, none before it is built.  A string of the submission is likewise the
\* sequence of its words, <<>> for the empty string and for a missing field.
NoCommand == <<>>

\* A submission with no keystore field: a source bundle, or a binary.
Unsigned(marker) ==
  [marker |-> marker, keystore |-> FALSE, alias |-> <<>>, pass |-> <<>>, keyPass |-> <<>>]

BuildFresh ==
  /\ command = NoCommand
  /\ bpc = "queued"
  /\ tempDir = FALSE
  /\ invoked = <<>>
  /\ thrown = ""
  /\ sha256 = ""
  /\ bjob = queuedJob(1, 1)
  /\ bqueueDir = TRUE
  /\ bartifact = FALSE

BuildInit == benv = Installed /\ bundle = Unsigned(TRUE) /\ BuildFresh

\* processQueue line 919: error instanceof Error ? error.message : 'Build failed'.
failedWith(running, t, message) == [failedJob(running, t) EXCEPT !.error = message]

\* processQueue lines 906-910: the artifact of the record, here by its hash.
completedWith(running, t, hash) == [completedJob(running, t) EXCEPT !.artifact = hash]

(***************************************************************************)
(* POST /api/builds (app/api/builds/route.ts): validation, consumeQuota,   *)
(* createJob.  Request r uses call slot r of the ledger.                   *)
(***************************************************************************)
Posts == Callers

\* A request not yet received: `response` is the HTTP status sent, 0 for none,
\* and `job` the id createJob drew, 0 for none.
NoPost == [pc |-> "idle", file |-> FALSE, allowed |-> FALSE, job |-> 0, response |-> 0]

PostInit == post = [r \in Posts |-> NoPost]

Init ==
  /\ now = 1
  /\ jobsFile = <<>>
  /\ isProcessing = FALSE
  /\ queueDirs = {}
  /\ artifactDirs = {}
  /\ nextId = 1
  /\ cpc = [j \in JobIds |-> "idle"]
  /\ ctime = [j \in JobIds |-> 0]
  /\ cjobs = [j \in JobIds |-> <<>>]
  /\ wpc = [p \in PassIds |-> "idle"]
  /\ wjobs = [p \in PassIds |-> <<>>]
  /\ wjob = [p \in PassIds |-> NoJob]
  /\ ujobs = [p \in PassIds |-> <<>>]
  /\ lastWritten = [j \in JobIds |-> "none"]
  /\ lastCall = "none"
  /\ passAlone = FALSE
  /\ passQueued = {}

\* Date.now(): a reading of the millisecond clock, never below the last one.
DateNow == now..MaxTime

(***************************************************************************)
(* processQueue, lines 848-851: the synchronous head of the function.      *)
(* `jobs` is jobs.json as the caller leaves it and `inFlight` the          *)
(* createJob calls still under way after the caller's step; they only feed *)
(* the observers passQueued and passAlone.                                 *)
(***************************************************************************)
AlreadyProcessingNever == FALSE

AlreadyProcessing == isProcessing

QueuedIds(jobs) == {jobs[i].id : i \in {k \in 1..Len(jobs) : IsQueued(jobs[k])}}

IdlePasses == {p \in PassIds : wpc[p] = "idle"}

\* createJob calls between staging and their write.
InFlight == {j \in JobIds : cpc[j] \in {"staged", "read"}}

processQueue(jobs, inFlight) ==
  IF AlreadyProcessing
  THEN /\ lastCall' = "returned"
       \* a call from createJob (inFlight # InFlight) is a submission step
       /\ passAlone' = (passAlone /\ inFlight = InFlight)
       /\ passQueued' = IF passAlone' THEN passQueued ELSE {}
       /\ UNCHANGED <<isProcessing, wpc>>
  ELSE /\ IdlePasses # {}
       /\ LET p == CHOOSE q \in IdlePasses : \A r \in IdlePasses : q <= r
          IN wpc' = [wpc EXCEPT ![p] = "readJobs"]
       /\ isProcessing' = TRUE
       /\ lastCall' = "started"
       /\ passAlone' = (inFlight = {})
       /\ passQueued' = IF passAlone' THEN QueuedIds(jobs) ELSE {}

(***************************************************************************)
(* createJob, lines 783-838.                                               *)
(***************************************************************************)
\* Lines 792-830: stage input.zip under queue/<id>, then build the record.
CreateStageNoInput(j) ==
  /\ j = nextId
  /\ cpc[j] = "idle"
  /\ nextId' = nextId + 1
  /\ \E t \in DateNow : now' = t /\ ctime' = [ctime EXCEPT ![j] = t]
  /\ cpc' = [cpc EXCEPT ![j] = "staged"]
  /\ passAlone' = FALSE
  /\ passQueued' = {}
  /\ UNCHANGED <<jobsFile, isProcessing, queueDirs, artifactDirs, cjobs, wpc, wjobs,
                 wjob, ujobs, lastWritten, lastCall>>

CreateStage(j) ==
  /\ j = nextId
  /\ cpc[j] = "idle"
  /\ nextId' = nextId + 1
  /\ queueDirs' = queueDirs \cup {j}
  /\ \E t \in DateNow : now' = t /\ ctime' = [ctime EXCEPT ![j] = t]
  /\ cpc' = [cpc EXCEPT ![j] = "staged"]
  /\ passAlone' = FALSE
  /\ passQueued' = {}
  /\ UNCHANGED <<jobsFile, isProcessing, artifactDirs, cjobs, wpc, wjobs, wjob,
                 ujobs, lastWritten, lastCall>>

\* Line 832: const jobs = await readJobs().
CreateRead(j) ==
  /\ cpc[j] = "staged"
  /\ cjobs' = [cjobs EXCEPT ![j] = jobsFile]
  /\ cpc' = [cpc EXCEPT ![j] = "read"]
  /\ passAlone' = FALSE
  /\ passQueued' = {}
  /\ UNCHANGED <<now, jobsFile, isProcessing, queueDirs, artifactDirs, nextId, ctime,
                 wpc, wjobs, wjob, ujobs, lastWritten, lastCall>>

\* Lines 833-837: jobs.push(job); await writeJobs(jobs); processQueue().
CreateWrite(j) ==
  /\ cpc[j] = "read"
  /\ jobsFile' = Append(cjobs[j], queuedJob(j, ctime[j]))
  /\ cjobs' = [cjobs EXCEPT ![j] = <<>>]
  /\ cpc' = [cpc EXCEPT ![j] = "done"]
  /\ processQueue(jobsFile', InFlight \ {j})
  /\ UNCHANGED <<now, queueDirs, artifactDirs, nextId, ctime, wjobs, wjob, ujobs,
                 lastWritten>>

(***************************************************************************)
(* The two polling routes, which call processQueue on every request.       *)
(***************************************************************************)
\* GET /api/builds: processQueue(), then listJobs().
ListRoute ==
  /\ processQueue(jobsFile, InFlight)
  /\ UNCHANGED <<now, jobsFile, queueDirs, artifactDirs, nextId, cpc, ctime, cjobs,
                 wjobs, wjob, ujobs, lastWritten>>

\* GET /api/builds/[id]: 404 when getJob(id) is null, otherwise processQueue().
JobRoute(id) ==
  /\ getJob(jobsFile, id) # NoJob
  /\ processQueue(jobsFile, InFlight)
  /\ UNCHANGED <<now, jobsFile, queueDirs, artifactDirs, nextId, cpc, ctime, cjobs,
                 wjobs, wjob, ujobs, lastWritten>>

(***************************************************************************)
(* processQueue, lines 852-926: the loop of one pass p.                    *)
(***************************************************************************)
\* Line 853: const jobs = await readJobs().
LoopRead(p) ==
  /\ wpc[p] = "readJobs"
  /\ wjobs' = [wjobs EXCEPT ![p] = jobsFile]
  /\ wpc' = [wpc EXCEPT ![p] = "select"]
  /\ UNCHANGED <<now, jobsFile, isProcessing, queueDirs, artifactDirs, nextId, cpc,
                 ctime, cjobs, wjob, ujobs, lastWritten, lastCall, passAlone, passQueued>>

\* Lines 854-866 and 924-926: pick the next job; none -> break and reset the
\* flag; otherwise build runningJob and enter updateJob, whose readJobs (line
\* 841) is the end of this step.
Select(p) ==
  /\ wpc[p] = "select"
  /\ LET next == nextQueued(wjobs[p])
     IN IF next = NoJob
        THEN /\ wpc' = [wpc EXCEPT ![p] = "idle"]
             /\ isProcessing' = FALSE
             /\ wjobs' = [wjobs EXCEPT ![p] = <<>>]
             /\ UNCHANGED <<now, wjob, ujobs>>
        ELSE /\ wpc' = [wpc EXCEPT ![p] = "markRunning"]
             /\ \E t \in DateNow :
                  now' = t /\ wjob' = [wjob EXCEPT ![p] = runningJob(next, t)]
             /\ ujobs' = [ujobs EXCEPT ![p] = jobsFile]
             /\ UNCHANGED <<isProcessing, wjobs>>
  /\ UNCHANGED <<jobsFile, queueDirs, artifactDirs, nextId, cpc, ctime, cjobs,
                 lastWritten, lastCall, passAlone, passQueued>>

\* updateJob, lines 842-845: the write half, shared by the three calls.
updateJobWrite(p) ==
  IF findIndex(ujobs[p], wjob[p].id) = 0
  THEN UNCHANGED <<jobsFile, lastWritten>>
  ELSE /\ jobsFile' = replaced(ujobs[p], wjob[p])
       /\ lastWritten' = [lastWritten EXCEPT ![wjob[p].id] = wjob[p].status]

\* Line 866: await updateJob(runningJob), the write.
MarkRunning(p) ==
  /\ wpc[p] = "markRunning"
  /\ updateJobWrite(p)
  /\ wpc' = [wpc EXCEPT ![p] = "build"]
  /\ wjobs' = [wjobs EXCEPT ![p] = <<>>]
  /\ ujobs' = [ujobs EXCEPT ![p] = <<>>]
  /\ UNCHANGED <<now, isProcessing, queueDirs, artifactDirs, nextId, cpc, ctime, cjobs,
                 wjob, lastCall, passAlone, passQueued>>

\* Lines 868-911 and 914-920: read the staged input, run the pipeline, store
\* the artifact; any throw lands in the catch.  Ends at the readJobs of the
\* updateJob call that follows (line 912 or 921).
BuildNoStore(p) ==
  /\ wpc[p] = "build"
  /\ \E ok \in BOOLEAN, t \in DateNow :
       /\ ok => wjob[p].id \in queueDirs
       /\ now' = t
       /\ IF ok
          THEN /\ UNCHANGED artifactDirs
               /\ wjob' = [wjob EXCEPT ![p] = completedJob(wjob[p], t)]
          ELSE /\ wjob' = [wjob EXCEPT ![p] = failedJob(wjob[p], t)]
               /\ UNCHANGED artifactDirs
  /\ ujobs' = [ujobs EXCEPT ![p] = jobsFile]
  /\ wpc' = [wpc EXCEPT ![p] = "markDone"]
  /\ UNCHANGED <<jobsFile, isProcessing, queueDirs, nextId, cpc, ctime, cjobs,
                 wjobs, lastWritten, lastCall, passAlone, passQueued>>

Build(p) ==
  /\ wpc[p] = "build"
  /\ \E ok \in BOOLEAN, t \in DateNow :
       /\ ok => wjob[p].id \in queueDirs
       /\ now' = t
       /\ IF ok
          THEN /\ artifactDirs' = artifactDirs \cup {wjob[p].id}
               /\ wjob' = [wjob EXCEPT ![p] = completedJob(wjob[p], t)]
          ELSE /\ wjob' = [wjob EXCEPT ![p] = failedJob(wjob[p], t)]
               /\ UNCHANGED artifactDirs
  /\ ujobs' = [ujobs EXCEPT ![p] = jobsFile]
  /\ wpc' = [wpc EXCEPT ![p] = "markDone"]
  /\ UNCHANGED <<jobsFile, isProcessing, queueDirs, nextId, cpc, ctime, cjobs,
                 wjobs, lastWritten, lastCall, passAlone, passQueued>>

\* Where the pass goes after the terminal write: line 913 on the success
\* path, the loop head from the catch block.
AfterMarkDone(job) == IF job.status = "completed" THEN "cleanup" ELSE "readJobs"

\* Line 912 or 921: await updateJob(completedJob | failedJob), the write.
MarkDone(p) ==
  /\ wpc[p] = "markDone"
  /\ updateJobWrite(p)
  /\ wpc' = [wpc EXCEPT ![p] = AfterMarkDone(wjob[p])]
  /\ wjob' = [wjob EXCEPT ![p] = IF wjob[p].status = "completed" THEN wjob[p] ELSE NoJob]
  /\ ujobs' = [ujobs EXCEPT ![p] = <<>>]
  /\ UNCHANGED <<now, isProcessing, queueDirs, artifactDirs, nextId, cpc, ctime, cjobs,
                 wjobs, lastCall, passAlone, passQueued>>

\* Line 913: await rm(jobDir, { recursive: true, force: true }).
Cleanup(p) ==
  /\ wpc[p] = "cleanup"
  /\ queueDirs' = queueDirs \ {wjob[p].id}
  /\ wjob' = [wjob EXCEPT ![p] = NoJob]
  /\ wpc' = [wpc EXCEPT ![p] = "readJobs"]
  /\ UNCHANGED <<now, jobsFile, isProcessing, artifactDirs, nextId, cpc, ctime, cjobs,
                 wjobs, ujobs, lastWritten, lastCall, passAlone, passQueued>>

Next ==
  \/ \E j \in JobIds : CreateStage(j) /\ UNCHANGED <<quotaVars, buildVars, post>>
  \/ \E j \in JobIds : CreateRead(j) /\ UNCHANGED <<quotaVars, buildVars, post>>
  \/ \E j \in JobIds : CreateWrite(j) /\ UNCHANGED <<quotaVars, buildVars, post>>
  \/ ListRoute /\ UNCHANGED <<quotaVars, buildVars, post>>
  \/ \E id \in JobIds : JobRoute(id) /\ UNCHANGED <<quotaVars, buildVars, post>>
  \/ \E p \in PassIds : LoopRead(p) /\ UNCHANGED <<quotaVars, buildVars, post>>
  \/ \E p \in PassIds : Select(p) /\ UNCHANGED <<quotaVars, buildVars, post>>
  \/ \E p \in PassIds : MarkRunning(p) /\ UNCHANGED <<quotaVars, buildVars, post>>
  \/ \E p \in PassIds : Build(p) /\ UNCHANGED <<quotaVars, buildVars, post>>
  \/ \E p \in PassIds : MarkDone(p) /\ UNCHANGED <<quotaVars, buildVars, post>>
  \/ \E p \in PassIds : Cleanup(p) /\ UNCHANGED <<quotaVars, buildVars, post>>

QueueInit == Init /\ QuotaInit /\ BuildInit /\ PostInit

Spec == QueueInit /\ [][Next]_allVars

(***************************************************************************)
(* Properties.                                                             *)
(***************************************************************************)
ActivePasses == {p \in PassIds : wpc[p] # "idle"}
RunningIds(jobs) == {jobs[i].id : i \in {k \in 1..Len(jobs) : jobs[k].status = "running"}}
Created == {j \in JobIds : cpc[j] = "done"}
\* Nothing is in progress: no pass is active and no createJob call is under way.
Quiescent == ~isProcessing /\ ActivePasses = {} /\ InFlight = {}

\* C1: for every job the statuses processQueue writes to jobs.json follow
\* running -> completed or running -> failed, starting from the queued record:
\* the first status written is running, a terminal status is written only
\* after running, and nothing is written after a terminal status.
C1_WorkerWritesFollowPath ==
  [][\A j \in JobIds :
       lastWritten'[j] # lastWritten[j] =>
         <<lastWritten[j], lastWritten'[j]>> \in
           {<<"none", "running">>, <<"running", "completed">>, <<"running", "failed">>}]_vars

\* C2: once jobs.json holds a job as completed or failed, no step of any
\* operation replaces the stored status of that job by another status.  (A
\* step that drops the record from the list altogether is not counted here.)
C2_TerminalAbsorbing ==
  [][\A j \in JobIds :
       (StatusOf(jobsFile, j) \in Terminal /\ StatusOf(jobsFile', j) # "absent") =>
         StatusOf(jobsFile', j) = StatusOf(jobsFile, j)]_vars

\* C3: in every record of jobs.json, artifact is set exactly when the status
\* is completed and error is set exactly when the status is failed.
C3_ArtifactIffCompleted ==
  \A i \in 1..Len(jobsFile) :
    /\ (jobsFile[i].artifact # "") <=> (jobsFile[i].status = "completed")
    /\ (jobsFile[i].error # "") <=> (jobsFile[i].status = "failed")

\* jobs.json holds a completed job next to a failed one.
C3_Witness ==
  /\ \E i \in 1..Len(jobsFile) : jobsFile[i].status = "completed"
  /\ \E i \in 1..Len(jobsFile) : jobsFile[i].status = "failed"

\* A step in which a processQueue call found the flag set: only processQueue
\* assigns lastCall, and of the callers only createJob changes anything else.
TurnedAway == lastCall' = "returned" /\ (lastCall # "returned" \/ cpc' # cpc)

\* C4: at most one pass is active at any time, and a processQueue call made
\* while a pass is active changes nothing of the worker: the flag, the
\* position and the locals of every pass stay as they were.
C4_SinglePass ==
  /\ [](Cardinality(ActivePasses) <= 1)
  /\ [][(ActivePasses # {} /\ TurnedAway) =>
          UNCHANGED <<isProcessing, wpc, wjobs, wjob, ujobs>>]_vars

\* A call has returned at once while a pass was in the middle of a build.
C4_Witness == lastCall = "returned" /\ \E p \in PassIds : wpc[p] = "build"

\* C5: jobs.json never holds more than one record with status running.
C5_AtMostOneRunning == Cardinality(RunningIds(jobsFile)) <= 1

\* C6: when a pass that began with no submission under way has returned and
\* no createJob step has run since it began, jobs.json holds no queued job and
\* every job that was queued when the pass began is completed or failed.
C6_SinglePassDrains ==
  (passAlone /\ ~isProcessing) =>
    /\ QueuedIds(jobsFile) = {}
    /\ \A j \in passQueued : StatusOf(jobsFile, j) \in Terminal

\* Such a pass has returned after starting with two queued jobs.
C6_Witness == passAlone /\ ~isProcessing /\ Cardinality(passQueued) >= 2

\* C7: whenever nothing is in progress, every job a createJob call has
\* returned is completed or failed in jobs.json: no job needs another
\* processQueue call to be processed.
C7_EveryJobProcessed ==
  Quiescent => \A j \in Created : StatusOf(jobsFile, j) \in Terminal

\* C8: the job a pass is about to mark running is queued in the list the pass
\* read, no queued job of that list has a smaller createdAt, and every queued
\* job of that list with the same createdAt comes later in the list.
C8_OldestFirst ==
  \A p \in PassIds :
    wpc[p] = "markRunning" =>
      LET jobs == wjobs[p]
          n == findIndex(jobs, wjob[p].id)
      IN /\ n # 0
         /\ IsQueued(jobs[n])
         /\ wjob[p].createdAt = jobs[n].createdAt
         /\ \A i \in 1..Len(jobs) :
              (i # n /\ IsQueued(jobs[i])) =>
                \/ jobs[i].createdAt > jobs[n].createdAt
                \/ jobs[i].createdAt = jobs[n].createdAt /\ i > n

\* A pass has chosen among two or more queued jobs, and the one it chose is
\* not the first queued job of the list it read.
C8_Witness ==
  \E p \in PassIds :
    /\ wpc[p] = "markRunning"
    /\ Len(SelectSeq(wjobs[p], IsQueued)) >= 2
    /\ findIndex(wjobs[p], wjob[p].id) > 1
    /\ IsQueued(wjobs[p][1])

\* C9: when the build of a job has failed, the write that follows leaves the
\* job in jobs.json as failed with completedAt and error set, and the pass is
\* still active, back at the head of its loop.
C9_FailureIsolated ==
  [][\A p \in PassIds :
       (wpc[p] = "markDone" /\ wjob[p].status = "failed" /\ wpc'[p] # "markDone") =>
         /\ wpc'[p] = "readJobs"
         /\ isProcessing'
         /\ LET stored == getJob(jobsFile', wjob[p].id)
            IN stored.status = "failed" /\ stored.completedAt # 0 /\ stored.error # ""]_vars

\* The control flow alone: the write that follows a failed build leaves the
\* pass active at the head of its loop, whatever jobs.json holds.
PassSurvivesFailure ==
  [][\A p \in PassIds :
       (wpc[p] = "markDone" /\ wjob[p].status = "failed" /\ wpc'[p] # "markDone") =>
         wpc'[p] = "readJobs" /\ isProcessing']_vars

\* C10: a job that jobs.json holds as completed or failed has no staging
\* directory queue/<id>, once the pass that finished it has moved on.
C10_StagingRemoved ==
  \A j \in JobIds :
    (/\ StatusOf(jobsFile, j) \in Terminal
     /\ ~\E p \in PassIds : wpc[p] \in {"markDone", "cleanup"} /\ wjob[p].id = j)
      => j \notin queueDirs

(***************************************************************************)
(* consumeQuota, lines 136-169, as the steps of one call c, and            *)
(* getQuotaSnapshot as the quota view of GET /api/builds.                  *)
(***************************************************************************)
\* Lines 142-164: await readUsage(), then the checks and, when the call is
\* allowed, the three increments on the in-memory copy.
QRead(c, userId, deviceId, ip, plan) ==
  /\ qcall[c].pc = "idle"
  /\ LET o == decide(usageFile, userId, deviceId, ip, plan, clock)
     IN qcall' = [qcall EXCEPT ![c] =
          [pc |-> IF o.writes THEN "write" ELSE "snapshot",
           userId |-> userId, deviceId |-> deviceId, ip |-> ip, plan |-> plan,
           hour |-> clock, usage |-> IF o.writes THEN o.usage ELSE EmptyUsage,
           allowed |-> o.allowed, reason |-> o.reason]]
  /\ lastReturn' = NoReturn
  /\ UNCHANGED <<usageFile, clock, granted>>

\* Line 165: await writeUsage(usage), the whole file.
QWrite(c) ==
  /\ qcall[c].pc = "write"
  /\ usageFile' = qcall[c].usage
  /\ qcall' = [qcall EXCEPT ![c].pc = "snapshot", ![c].usage = EmptyUsage]
  /\ UNCHANGED <<clock, granted, asked, lastReturn>>

\* Lines 153-154, 158-159 or 167-168: await getQuotaSnapshot(params), return.
QReturn(c) ==
  /\ qcall[c].pc = "snapshot"
  /\ LET q == qcall[c]
     IN /\ usageFile' = storeAfterSnapshot(usageFile, q.userId, q.deviceId, q.ip, clock)
        /\ lastReturn' = [call |-> "consumeQuota", userId |-> q.userId,
                          deviceId |-> q.deviceId, ip |-> q.ip, plan |-> q.plan,
                          allowed |-> q.allowed, reason |-> q.reason,
                          snapshot |-> getQuotaSnapshot(usageFile, q.userId, q.deviceId,
                                                        q.plan, clock)]
        /\ granted' = IF q.allowed
                      THEN counted(granted, q.userId, q.deviceId, q.ip,
                                   getWeekKey(q.hour), getHourKey(q.hour))
                      ELSE granted
  /\ qcall' = [qcall EXCEPT ![c] = NoCall]
  /\ UNCHANGED <<clock, asked>>

\* GET /api/builds, line 23 of the list route: the caller's quota view.
QuotaView(userId, deviceId, ip, plan) ==
  /\ usageFile' = storeAfterSnapshot(usageFile, userId, deviceId, ip, clock)
  /\ lastReturn' = [call |-> "getQuotaSnapshot", userId |-> userId,
                    deviceId |-> deviceId, ip |-> ip, plan |-> plan,
                    allowed |-> FALSE, reason |-> "",
                    snapshot |-> getQuotaSnapshot(usageFile, userId, deviceId, plan,
                                                  clock)]
  /\ UNCHANGED <<clock, qcall, granted, asked>>

\* Calls the model explores: every counter the call would raise has been
\* granted fewer than the cap.
Room(userId, deviceId, ip, weekCap, hourCap) ==
  /\ getScopeCount(granted, "user", userId, getWeekKey(clock)) < weekCap
  /\ getScopeCount(granted, "device", deviceId, getWeekKey(clock)) < weekCap
  /\ getIpHourlyCount(granted, ip, getHourKey(clock)) < hourCap

\* No consumeQuota call is under way.
QuotaIdle == \A c \in Callers : qcall[c].pc = "idle"

(***************************************************************************)
(* The ledger under overlapping requests.  The run begins with a store     *)
(* that earlier requests of the same hour left: w allowed calls of         *)
(* ("u1", "d1") and h allowed calls from "a1".                             *)
(***************************************************************************)
usageAfter(w, h) ==
  [EmptyUsage EXCEPT !.user["u1"][getWeekKey(StartHour)] = w,
                     !.device["d1"][getWeekKey(StartHour)] = w,
                     !.ipHourly["a1"][getHourKey(StartHour)] = h]

QuotaInitLoaded ==
  /\ \E w \in {0, FreeLimit - 1}, h \in {0, IP_HOURLY_LIMIT - 1} :
       usageFile = usageAfter(w, h)
  /\ granted = usageFile
  /\ clock = StartHour
  /\ qcall = [c \in Callers |-> NoCall]
  /\ asked = 0
  /\ lastReturn = NoReturn

QuotaNext ==
  \/ \E c \in Callers, u \in UserIds, d \in DeviceIds, a \in {"a1"}, plan \in {"free", "studio"} :
       /\ asked < MaxCalls
       /\ \A b \in Callers : b < c => qcall[b].pc # "idle"
       /\ asked' = asked + 1
       /\ QRead(c, u, d, a, plan)
       /\ UNCHANGED <<vars, buildVars, post>>
  \/ \E c \in Callers : QWrite(c) /\ UNCHANGED <<vars, buildVars, post>>
  \/ \E c \in Callers : QReturn(c) /\ UNCHANGED <<vars, buildVars, post>>

QuotaLoadedInit == Init /\ QuotaInitLoaded /\ BuildInit /\ PostInit

SpecQuota == QuotaLoadedInit /\ [][QuotaNext]_allVars

(***************************************************************************)
(* The ledger when requests come one at a time, over one week: a call      *)
(* begins when none is under way.  The store begins empty.                 *)
(***************************************************************************)
QuotaWeekNext ==
  \/ \E u \in {"", "u1"}, d \in DeviceIds, a \in Ips, plan \in Plans :
       /\ QuotaIdle
       /\ Room(u, d, a, MaxWeekly, FreeLimit + 1)
       /\ QRead(1, u, d, a, plan)
       /\ UNCHANGED <<asked, vars, buildVars, post>>
  \/ QWrite(1) /\ UNCHANGED <<vars, buildVars, post>>
  \/ QReturn(1) /\ UNCHANGED <<vars, buildVars, post>>
  \/ \E u \in {"", "u1"}, d \in DeviceIds, a \in Ips, plan \in {"free", "studio"} :
       QuotaIdle /\ QuotaView(u, d, a, plan) /\ UNCHANGED <<vars, buildVars, post>>

SpecQuotaWeek == QueueInit /\ [][QuotaWeekNext]_allVars

(***************************************************************************)
(* The ledger when requests come one at a time from one address, over one  *)
(* hour.  `asked` counts the calls, up to MaxHourly.                       *)
(***************************************************************************)
QuotaHourNext ==
  \/ \E u \in {"", "u1"}, d \in DeviceIds, plan \in Plans :
       /\ QuotaIdle
       /\ Room(u, d, "a1", FreeLimit + 2, MaxHourly)
       /\ asked' = IF asked < MaxHourly THEN asked + 1 ELSE asked
       /\ QRead(1, u, d, "a1", plan)
       /\ UNCHANGED <<vars, buildVars, post>>
  \/ QWrite(1) /\ UNCHANGED <<vars, buildVars, post>>
  \/ QReturn(1) /\ UNCHANGED <<vars, buildVars, post>>

SpecQuotaHour == QueueInit /\ [][QuotaHourNext]_allVars

(***************************************************************************)
(* Properties of the ledger.                                               *)
(***************************************************************************)
\* Allowed calls counted for one identity in one bucket; none for no identity.
Granted(scope, id, key) == IF id = "" THEN 0 ELSE granted[scope][id][key]

\* For a call q past its checks and not yet returned: the allowed calls so
\* far of its user, its device and its address in the call's week and hour.
GrantedWeekly(q) ==
  Max(Granted("user", q.userId, getWeekKey(q.hour)),
      Granted("device", q.deviceId, getWeekKey(q.hour)))

GrantedHourly(q) == Granted("ipHourly", q.ip, getHourKey(q.hour))

Decided == {c \in Callers : qcall[c].pc \in {"write", "snapshot"}}

\* C12: when requests come one at a time within one week, a free-plan call
\* carrying a user and a device, from an address under the hourly limit, is
\* allowed while fewer than 3 calls of that user and of that device have been
\* allowed, and is rejected with weekly-limit from then on: an identity's first
\* 3 calls pass and every later one is refused.
C12_FreeThreePerWeek ==
  \A c \in Decided :
    LET q == qcall[c]
    IN (q.plan = "free" /\ q.userId # "" /\ q.deviceId # "" /\ GrantedHourly(q) < 30)
       => IF GrantedWeekly(q) < 3
          THEN q.allowed
          ELSE ~q.allowed /\ q.reason = "weekly-limit"

\* The fourth call of a free identity, refused.
C12_Witness ==
  \E c \in Decided :
    /\ qcall[c].plan = "free" /\ qcall[c].userId = "u1" /\ qcall[c].deviceId = "d1"
    /\ granted.user["u1"][getWeekKey(clock)] = 3
    /\ granted.device["d1"][getWeekKey(clock)] = 3
    /\ qcall[c].reason = "weekly-limit"

\* C13: when requests come one at a time, a pro-plan call from an address
\* under the hourly limit is allowed exactly while fewer than 15 calls of its
\* user and device have been allowed that week, and rejected with weekly-limit
\* after; a studio-plan call is never rejected with weekly-limit.
C13_PlanLimits ==
  \A c \in Decided :
    LET q == qcall[c]
    IN /\ (q.plan = "pro" /\ GrantedHourly(q) < 30)
          => IF GrantedWeekly(q) < 15
             THEN q.allowed
             ELSE ~q.allowed /\ q.reason = "weekly-limit"
       /\ q.plan = "studio" => q.reason # "weekly-limit"

\* The sixteenth call of a pro identity, refused.
C13_Witness ==
  \E c \in Decided :
    /\ qcall[c].plan = "pro" /\ qcall[c].userId = "u1"
    /\ granted.user["u1"][getWeekKey(clock)] = 15
    /\ qcall[c].reason = "weekly-limit"

\* C13, second half in a reached state: a studio call allowed over 15.
C13_StudioOverFifteen ==
  \E c \in Decided :
    /\ qcall[c].plan = "studio" /\ qcall[c].allowed
    /\ GrantedWeekly(qcall[c]) >= 15

\* C14 as stated: of the calls made one at a time from one address within an
\* hour, the 31st and every later one is rejected with ip-rate-limit.
C14_ThirtyFirstCallRejected ==
  \A c \in Decided :
    (qcall[c].ip # "" /\ asked >= 31)
    => ~qcall[c].allowed /\ qcall[c].reason = "ip-rate-limit"

\* C14 amended: the hourly counter counts the calls that were allowed.  Once
\* 30 calls from an address have been allowed within the hour, every later
\* call from it in that hour is rejected with ip-rate-limit, whatever plan,
\* userId and deviceId it carries, so no address is allowed a 31st call.
C14_RejectedAfterThirtyAllowed ==
  /\ \A c \in Decided :
       (qcall[c].ip # "" /\ GrantedHourly(qcall[c]) >= 30)
       => ~qcall[c].allowed /\ qcall[c].reason = "ip-rate-limit"
  /\ \A a \in Ips, h \in HourKeys : granted.ipHourly[a][h] <= 30

\* A studio call refused after 30 allowed calls from its address.
C14_Witness ==
  \E c \in Decided :
    /\ qcall[c].plan = "studio" /\ qcall[c].ip = "a1"
    /\ granted.ipHourly["a1"][getHourKey(clock)] = 30
    /\ qcall[c].reason = "ip-rate-limit"

\* Limit of the plan of call q reached by its user or its device.
WeeklyReached(q) ==
  \/ q.plan = "free" /\ GrantedWeekly(q) >= 3
  \/ q.plan = "pro" /\ GrantedWeekly(q) >= 15

\* C15: when the hourly counter of the address has reached 30 and the weekly
\* limit of the plan is reached too, the reason is ip-rate-limit; weekly-limit
\* is returned only below 30.
C15_IpCheckedFirst ==
  \A c \in Decided :
    LET q == qcall[c]
    IN /\ (GrantedHourly(q) >= 30 /\ WeeklyReached(q)) => q.reason = "ip-rate-limit"
       /\ q.reason = "weekly-limit" => GrantedHourly(q) < 30

\* Both limits reached at once.
C15_Witness ==
  \E c \in Decided :
    /\ GrantedHourly(qcall[c]) >= 30 /\ WeeklyReached(qcall[c])
    /\ qcall[c].reason = "ip-rate-limit"

\* Call c takes a step.
Steps(c) == qcall'[c] # qcall[c]

\* Call c performs its writeUsage.
Writes(c) == qcall[c].pc = "write" /\ qcall'[c].pc = "snapshot"

\* C16: a consumeQuota call that is rejected never reaches writeUsage, and no
\* step it takes from its checks to its return changes any counter of
\* usage.json, whatever other calls are under way.
C16_RejectionLeavesStore ==
  /\ [](\A c \in Callers : qcall[c].pc = "write" => qcall[c].allowed)
  /\ [][\A c \in Callers :
          (qcall[c].pc # "idle" /\ ~qcall[c].allowed /\ Steps(c))
          => usageFile' = usageFile]_quotaVars

\* A rejected call has returned while usage.json holds counts.
C16_Witness ==
  /\ lastReturn.call = "consumeQuota" /\ ~lastReturn.allowed
  /\ usageFile # EmptyUsage

\* The outcome consumeQuota would give a caller.
Verdict(usage, u, d, a, plan, hour) ==
  <<decide(usage, u, d, a, plan, hour).allowed, decide(usage, u, d, a, plan, hour).reason>>

\* A step that runs getQuotaSnapshot: the quota view, or the end of a call.
Snapshots == lastReturn' # lastReturn /\ lastReturn'.call # "none"

\* C17: a getQuotaSnapshot call changes no counter of usage.json, so the
\* outcome of a consumeQuota call that follows is what it would have been
\* without it.
C17_SnapshotReadsOnly ==
  [][Snapshots =>
       /\ usageFile' = usageFile
       /\ \A plan \in Plans :
            Verdict(usageFile', lastReturn'.userId, lastReturn'.deviceId,
                    lastReturn'.ip, plan, clock')
              = Verdict(usageFile, lastReturn'.userId, lastReturn'.deviceId,
                        lastReturn'.ip, plan, clock)]_quotaVars

\* A quota view taken after calls were counted.
C17_Witness ==
  /\ lastReturn.call = "getQuotaSnapshot"
  /\ lastReturn.snapshot.used > 0

\* C18: the writeUsage of an allowed call leaves usage.json with the user, the
\* device and the address counter of the call each one above what the file
\* held, all three in the one write, and every other counter as it was.
C18_AllowedCountsOnce ==
  [][\A c \in Callers :
       Writes(c) =>
         usageFile' = counted(usageFile, qcall[c].userId, qcall[c].deviceId,
                              qcall[c].ip, getWeekKey(qcall[c].hour),
                              getHourKey(qcall[c].hour))]_quotaVars

\* C19: a step of a call for (u, d, a) leaves the buckets of every other user,
\* device and address as they were; with no userId it changes no user bucket,
\* with no deviceId no device bucket.
C19_BucketsIndependent ==
  [][\A c \in Callers :
       Steps(c) =>
         /\ \A u \in UserIds :
              (u # qcall'[c].userId \/ u = "") => usageFile'.user[u] = usageFile.user[u]
         /\ \A d \in DeviceIds :
              (d # qcall'[c].deviceId \/ d = "")
              => usageFile'.device[d] = usageFile.device[d]
         /\ \A a \in Ips :
              (a # qcall'[c].ip \/ a = "")
              => usageFile'.ipHourly[a] = usageFile.ipHourly[a]]_quotaVars

\* C20: usage.json and the copies the calls hold never carry a count under
\* the empty identity; a call with neither userId nor deviceId is never
\* rejected with weekly-limit, and a free call with only one of the two is
\* judged by the count of that one.
NoEmptyBucket(usage) ==
  /\ \A w \in WeekKeys : usage.user[""][w] = 0 /\ usage.device[""][w] = 0
  /\ \A h \in HourKeys : usage.ipHourly[""][h] = 0

C20_EmptyNeverCounted ==
  /\ NoEmptyBucket(usageFile)
  /\ \A c \in Callers : NoEmptyBucket(qcall[c].usage)
  /\ \A c \in Decided :
       LET q == qcall[c]
       IN /\ (q.userId = "" /\ q.deviceId = "") => q.reason # "weekly-limit"
          /\ (q.plan = "free" /\ q.userId = "" /\ q.deviceId # ""
              /\ granted.device[q.deviceId][getWeekKey(q.hour)] < 3
              /\ GrantedHourly(q) < 30) => q.allowed
          /\ (q.plan = "free" /\ q.deviceId = "" /\ q.userId # ""
              /\ granted.user[q.userId][getWeekKey(q.hour)] < 3
              /\ GrantedHourly(q) < 30) => q.allowed

\* A free call with no identity allowed after 3 such calls were allowed.
C20_Witness ==
  \E c \in Decided :
    /\ qcall[c].plan = "free" /\ qcall[c].userId = "" /\ qcall[c].deviceId = ""
    /\ qcall[c].ip = "a1" /\ qcall[c].allowed
    /\ granted.ipHourly["a1"][getHourKey(clock)] >= 3

\* The outcome the next consumeQuota call of the caller of the latest return
\* would get, made now with the same parameters.
NextVerdict ==
  decide(usageFile, lastReturn.userId, lastReturn.deviceId, lastReturn.ip,
         lastReturn.plan, clock)

\* What every snapshot shows, whatever the address: used is the larger of the
\* allowed calls of the user and of the device this week, a finite plan has
\* remaining = max(limit - used, 0), studio has neither limit nor remaining.
SnapshotFigures ==
  LET s == lastReturn.snapshot
      used == Max(Granted("user", lastReturn.userId, getWeekKey(clock)),
                  Granted("device", lastReturn.deviceId, getWeekKey(clock)))
  IN /\ s.used = used
     /\ s.plan = "free" => s.limit = 3
     /\ s.plan = "pro" => s.limit = 15
     /\ s.plan = "studio" => s.limit = NoLimit /\ s.remaining = NoLimit
     /\ s.plan # "studio" =>
          /\ s.remaining >= 0
          /\ s.remaining = IF s.limit - used > 0 THEN s.limit - used ELSE 0

\* C21 as stated: when requests come one at a time, the snapshot a call
\* returns has the figures above, and for a finite plan remaining = 0 exactly
\* when the caller's next consumeQuota would be rejected with weekly-limit.
C21_RemainingZeroIffWeeklyLimit ==
  lastReturn.call # "none" =>
    /\ SnapshotFigures
    /\ lastReturn.plan # "studio" =>
         (lastReturn.snapshot.remaining = 0 <=> NextVerdict.reason = "weekly-limit")

\* C21 amended: the figures hold as stated.  A next call that is rejected with
\* weekly-limit has remaining = 0; remaining = 0 means the next call is
\* rejected, with weekly-limit when its address is under the hourly limit and
\* with ip-rate-limit when the address has reached it.
C21_RemainingZeroMeansRejected ==
  lastReturn.call # "none" =>
    /\ SnapshotFigures
    /\ lastReturn.plan # "studio" =>
         /\ NextVerdict.reason = "weekly-limit" => lastReturn.snapshot.remaining = 0
         /\ lastReturn.snapshot.remaining = 0 =>
              /\ ~NextVerdict.allowed
              /\ NextVerdict.reason =
                   IF Granted("ipHourly", lastReturn.ip, getHourKey(clock)) >= 30
                   THEN "ip-rate-limit" ELSE "weekly-limit"
    /\ lastReturn.plan = "studio" => NextVerdict.reason # "weekly-limit"

\* A snapshot of a finite plan whose used count is above the limit, so that
\* remaining is clamped: the identity was counted under a larger plan.
C21_Witness ==
  /\ lastReturn.call # "none"
  /\ lastReturn.plan = "free"
  /\ lastReturn.snapshot.used > lastReturn.snapshot.limit
  /\ lastReturn.snapshot.remaining = 0

\* C22: every counter of usage.json is a non-negative integer, and no step
\* of any consumeQuota call, however the calls interleave, leaves a counter
\* below what the file held.
C22_CountersNeverDecrease ==
  /\ [](/\ \A u \in UserIds, w \in WeekKeys : usageFile.user[u][w] \in Nat
        /\ \A d \in DeviceIds, w \in WeekKeys : usageFile.device[d][w] \in Nat
        /\ \A a \in Ips, h \in HourKeys : usageFile.ipHourly[a][h] \in Nat)
  /\ [][/\ \A u \in UserIds, w \in WeekKeys :
             usageFile'.user[u][w] >= usageFile.user[u][w]
        /\ \A d \in DeviceIds, w \in WeekKeys :
             usageFile'.device[d][w] >= usageFile.device[d][w]
        /\ \A a \in Ips, h \in HourKeys :
             usageFile'.ipHourly[a][h] >= usageFile.ipHourly[a][h]]_quotaVars

(***************************************************************************)
(* Overlapping requests that are all on the free plan, so that `granted`   *)
(* counts the allowed free-plan calls of each identity and address.        *)
(***************************************************************************)
QuotaFreeNext ==
  \/ \E c \in Callers, u \in UserIds, d \in DeviceIds, a \in {"a1"} :
       /\ asked < MaxCalls
       /\ \A b \in Callers : b < c => qcall[b].pc # "idle"
       /\ asked' = asked + 1
       /\ QRead(c, u, d, a, "free")
       /\ UNCHANGED <<vars, buildVars, post>>
  \/ \E c \in Callers : QWrite(c) /\ UNCHANGED <<vars, buildVars, post>>
  \/ \E c \in Callers : QReturn(c) /\ UNCHANGED <<vars, buildVars, post>>

SpecQuotaFree == QuotaLoadedInit /\ [][QuotaFreeNext]_allVars

\* C23: however consumeQuota calls overlap, no free-plan user and no
\* free-plan device has more than 3 calls allowed in one week, and no address
\* has more than 30 calls allowed in one hour.
C23_CeilingUnderConcurrency ==
  /\ \A u \in UserIds \ {""}, w \in WeekKeys : granted.user[u][w] <= 3
  /\ \A d \in DeviceIds \ {""}, w \in WeekKeys : granted.device[d][w] <= 3
  /\ \A a \in Ips \ {""}, h \in HourKeys : granted.ipHourly[a][h] <= 30

(***************************************************************************)
(* The ledger across a week boundary: requests of one user come one at a   *)
(* time while the clock moves from Sunday 22:00 past Monday 00:00.  The    *)
(* clock moves at any moment, between the steps of a call too.  The run    *)
(* begins with a store that the requests of Sunday 22:00 left.             *)
(***************************************************************************)
\* An hour passes.
AdvanceClock ==
  /\ clock < StartHour + MaxTicks
  /\ clock' = clock + 1
  /\ UNCHANGED <<usageFile, qcall, granted, asked, lastReturn>>

QuotaInitRoll ==
  /\ \E w \in {0, FreeLimit}, h \in {0, IP_HOURLY_LIMIT} : usageFile = usageAfter(w, h)
  /\ granted = usageFile
  /\ clock = StartHour
  /\ qcall = [c \in Callers |-> NoCall]
  /\ asked = 0
  /\ lastReturn = NoReturn

QuotaRollNext ==
  \/ \E d \in DeviceIds, plan \in {"free", "studio"} :
       /\ QuotaIdle
       /\ Room("u1", d, "a1", FreeLimit + 1, IP_HOURLY_LIMIT + 1)
       /\ QRead(1, "u1", d, "a1", plan)
       /\ UNCHANGED <<asked, vars, buildVars, post>>
  \/ QWrite(1) /\ UNCHANGED <<vars, buildVars, post>>
  \/ QReturn(1) /\ UNCHANGED <<vars, buildVars, post>>
  \/ AdvanceClock /\ UNCHANGED <<vars, buildVars, post>>

QuotaRollInit == Init /\ QuotaInitRoll /\ BuildInit /\ PostInit

SpecQuotaRoll == QuotaRollInit /\ [][QuotaRollNext]_allVars

\* Monday 1970-01-05 00:00 UTC, the week boundary of the runs.
MondayHour == 4 * 24

\* Allowed calls from "a1", the address of every call of these runs, that
\* were decided at or after hour `from`.
AllowedSince(from) ==
  LET hs == {h \in Hours : h >= from}
      RECURSIVE Sum(_)
      Sum(S) == IF S = {} THEN 0
                ELSE LET h == CHOOSE x \in S : TRUE
                     IN granted.ipHourly["a1"][getHourKey(h)] + Sum(S \ {h})
  IN Sum(hs)

\* C24: a call made on or after Monday 00:00 UTC, when no call has been
\* allowed since then, is allowed whatever the counts of the week before; a
\* call made in an hour in which its address has had no call allowed is not
\* rejected with ip-rate-limit whatever the count of the hour before; and the
\* write of a call leaves the buckets of every week and hour other than the
\* call's own as they were.
C24_Rollover ==
  /\ [](\A c \in Decided :
          LET q == qcall[c]
          IN /\ (q.hour >= MondayHour /\ AllowedSince(MondayHour) = 0) => q.allowed
             /\ AllowedSince(q.hour) = 0 => q.reason # "ip-rate-limit")
  /\ [][\A c \in Callers :
          Writes(c) =>
            /\ \A w \in WeekKeys, u \in UserIds, d \in DeviceIds :
                 (qcall[c].hour >= MondayHour /\ w < MondayHour \div 24) =>
                   /\ usageFile'.user[u][w] = usageFile.user[u][w]
                   /\ usageFile'.device[d][w] = usageFile.device[d][w]
            /\ \A h \in HourKeys, a \in Ips :
                 h # qcall[c].hour => usageFile'.ipHourly[a][h] = usageFile.ipHourly[a][h]
       ]_quotaVars

\* The first call of Monday, on the free plan, allowed and being written
\* while the user and the device stand at 3 for the week before and the
\* address at 30 for Sunday 22:00.
C24_Witness ==
  /\ qcall[1].pc = "write" /\ qcall[1].plan = "free" /\ qcall[1].hour = MondayHour
  /\ qcall[1].userId = "u1" /\ qcall[1].deviceId = "d1"
  /\ AllowedSince(MondayHour) = 0
  /\ usageFile.user["u1"][getWeekKey(StartHour)] >= 3
  /\ usageFile.device["d1"][getWeekKey(StartHour)] >= 3
  /\ usageFile.ipHourly["a1"][getHourKey(StartHour)] = 30

(***************************************************************************)
(* The Job Store when submissions come one after another: a createJob call *)
(* begins when no other is under way.  The worker and the polling routes   *)
(* run as before.                                                          *)
(***************************************************************************)
SeqNext ==
  \/ \E j \in JobIds :
       InFlight = {} /\ CreateStage(j) /\ UNCHANGED <<quotaVars, buildVars, post>>
  \/ \E j \in JobIds : CreateRead(j) /\ UNCHANGED <<quotaVars, buildVars, post>>
  \/ \E j \in JobIds : CreateWrite(j) /\ UNCHANGED <<quotaVars, buildVars, post>>
  \/ ListRoute /\ UNCHANGED <<quotaVars, buildVars, post>>
  \/ \E id \in JobIds : JobRoute(id) /\ UNCHANGED <<quotaVars, buildVars, post>>
  \/ \E p \in PassIds : LoopRead(p) /\ UNCHANGED <<quotaVars, buildVars, post>>
  \/ \E p \in PassIds : Select(p) /\ UNCHANGED <<quotaVars, buildVars, post>>
  \/ \E p \in PassIds : MarkRunning(p) /\ UNCHANGED <<quotaVars, buildVars, post>>
  \/ \E p \in PassIds : Build(p) /\ UNCHANGED <<quotaVars, buildVars, post>>
  \/ \E p \in PassIds : MarkDone(p) /\ UNCHANGED <<quotaVars, buildVars, post>>
  \/ \E p \in PassIds : Cleanup(p) /\ UNCHANGED <<quotaVars, buildVars, post>>

SpecSeq == QueueInit /\ [][SeqNext]_allVars

\* Places of job id in a list.
Places(jobs, id) == {i \in 1..Len(jobs) : jobs[i].id = id}

\* C25: when createJob calls come one after another, listJobs returns every
\* job a createJob call has returned exactly once, and the list it returns is
\* ordered by createdAt descending, whatever the worker has done to the jobs.
C25_ListsEveryJobNewestFirst ==
  LET listed == listJobs(jobsFile)
  IN /\ \A j \in Created : Cardinality(Places(listed, j)) = 1
     /\ \A i \in 1..(Len(listed) - 1) : listed[i].createdAt >= listed[i + 1].createdAt

\* What does hold of C25: listJobs returns the records jobs.json holds, each
\* as often as the file holds it, newest first, and no id twice.
ListedNewestFirst ==
  LET listed == listJobs(jobsFile)
  IN /\ Len(listed) = Len(jobsFile)
     /\ \A j \in JobIds :
          /\ Cardinality(Places(listed, j)) = Cardinality(Places(jobsFile, j))
          /\ Cardinality(Places(listed, j)) <= 1
          /\ Places(jobsFile, j) # {} => getJob(listed, j) = getJob(jobsFile, j)
     /\ \A i \in 1..(Len(listed) - 1) : listed[i].createdAt >= listed[i + 1].createdAt

\* C26: a job a createJob call has returned has a record in jobs.json in
\* every later state, however createJob calls and the worker's updateJob
\* calls interleave.
C26_NeverRemoved == \A j \in Created : getJob(jobsFile, j) # NoJob

\* C27: the write of a createJob call adds the record of its job, queued and
\* with no startedAt, completedAt, artifact or error, while queue/<id> with
\* the staged input is on disk; no record is in jobs.json before that write;
\* and a job the worker starts has its staged input on disk, unless a pass has
\* built it before and stored its artifact (the input is removed after that).
C27_StagedBeforeVisible ==
  /\ [](\A j \in JobIds : cpc[j] # "done" => getJob(jobsFile, j) = NoJob)
  /\ [](\A p \in PassIds :
          (wpc[p] = "markRunning" /\ wjob[p].id \notin artifactDirs)
          => wjob[p].id \in queueDirs)
  /\ [][\A j \in JobIds :
          (cpc[j] = "read" /\ cpc'[j] = "done") =>
            /\ j \in queueDirs
            /\ getJob(jobsFile', j) =
                 [id |-> j, status |-> "queued", createdAt |-> ctime[j], startedAt |-> 0,
                  completedAt |-> 0, error |-> "", artifact |-> ""]]_vars

\* The worker is about to start a job no pass has built while a second
\* submission has staged its input and not yet written its record.
C27_Witness ==
  \E p \in PassIds, j \in JobIds :
    /\ wpc[p] = "markRunning" /\ wjob[p].id \notin artifactDirs
    /\ cpc[j] = "read" /\ j \in queueDirs

\* Stored startedAt and completedAt of job id; 0 when unset or no record.
StartedAt(jobs, id) == getJob(jobs, id).startedAt
CompletedAt(jobs, id) == getJob(jobs, id).completedAt

\* C29: once jobs.json holds a startedAt for a job, no step that leaves the
\* job's record in the file changes or clears it, and the same for
\* completedAt; a record with completedAt has startedAt; and a record is given
\* these fields only by a write of processQueue.
C29_TimestampsSetOnce ==
  /\ [](\A j \in JobIds : CompletedAt(jobsFile, j) # 0 => StartedAt(jobsFile, j) # 0)
  /\ [][\A j \in JobIds :
          getJob(jobsFile', j) # NoJob =>
            /\ StartedAt(jobsFile, j) # 0
               => StartedAt(jobsFile', j) = StartedAt(jobsFile, j)
            /\ CompletedAt(jobsFile, j) # 0
               => CompletedAt(jobsFile', j) = CompletedAt(jobsFile, j)
            /\ (StartedAt(jobsFile', j) # StartedAt(jobsFile, j)
                \/ CompletedAt(jobsFile', j) # CompletedAt(jobsFile, j))
               => \E p \in PassIds :
                    wpc[p] \in {"markRunning", "markDone"} /\ wpc'[p] # wpc[p]
       ]_vars

\* C30: the worker goes on to build a job, with its staged input on disk, only
\* when no pass has marked that job running before: no job is built twice and
\* no failed job is built again.
C30_BuiltAtMostOnce ==
  [][\A p \in PassIds :
       (wpc[p] = "markRunning" /\ wpc'[p] = "build" /\ wjob[p].id \in queueDirs)
       => lastWritten[wjob[p].id] = "none"]_vars

(***************************************************************************)
(* POST /api/builds, lines 30-87 of the route, with the ledger and the Job *)
(* Store it calls and the worker createJob starts.  The run begins with a  *)
(* store in which ("u1", "d1") stand one below or at the free limit.       *)
(***************************************************************************)
\* Line 53: if (!file) return 400.
validatedAlways(file) == TRUE

validated(file) == file

\* Lines 39-55: read the form; without a file respond 400.
PostValidate(r, file) ==
  /\ post[r].pc = "idle"
  /\ \A b \in Posts : b < r => post[b].pc # "idle"
  /\ post' = [post EXCEPT ![r] =
       IF validated(file)
       THEN [NoPost EXCEPT !.pc = "consumeQuota", !.file = file]
       ELSE [NoPost EXCEPT !.pc = "done", !.file = file, !.response = 400]]
  /\ UNCHANGED <<vars, quotaVars>>

\* Line 57: consumeQuota({ userId, deviceId, ip, plan }), up to its readUsage.
PostQuotaRead(r, userId, deviceId, ip, plan) ==
  /\ post[r].pc = "consumeQuota"
  /\ QRead(r, userId, deviceId, ip, plan)
  /\ asked' = asked + 1
  /\ post' = [post EXCEPT ![r].pc = "quotaCheck"]
  /\ UNCHANGED vars

\* consumeQuota's writeUsage, for an allowed call.
PostQuotaWrite(r) ==
  /\ post[r].pc = "quotaCheck"
  /\ QWrite(r)
  /\ UNCHANGED <<vars, post>>

\* Lines 57-67: consumeQuota returns; a call not allowed is answered 429.
PostQuotaReturn(r) ==
  /\ post[r].pc = "quotaCheck"
  /\ QReturn(r)
  /\ post' = [post EXCEPT ![r] =
       IF qcall[r].allowed
       THEN [@ EXCEPT !.pc = "createJob", !.allowed = TRUE]
       ELSE [@ EXCEPT !.pc = "done", !.response = 429]]
  /\ UNCHANGED vars

\* Lines 69-80: createJob, its staging.
PostCreateStage(r) ==
  /\ post[r].pc = "createJob"
  /\ nextId \in JobIds
  /\ CreateStage(nextId)
  /\ post' = [post EXCEPT ![r].pc = "staged", ![r].job = nextId]
  /\ UNCHANGED quotaVars

\* createJob's readJobs.
PostCreateRead(r) ==
  /\ post[r].pc = "staged"
  /\ CreateRead(post[r].job)
  /\ post' = [post EXCEPT ![r].pc = "read"]
  /\ UNCHANGED quotaVars

\* createJob's writeJobs and processQueue(), then line 82: respond 202.
PostCreateWrite(r) ==
  /\ post[r].pc = "read"
  /\ CreateWrite(post[r].job)
  /\ post' = [post EXCEPT ![r].pc = "done", ![r].response = 202]
  /\ UNCHANGED quotaVars

QuotaInitPost ==
  /\ \E w \in {FreeLimit - 1, FreeLimit}, h \in {0, IP_HOURLY_LIMIT} :
       usageFile = usageAfter(w, h)
  /\ granted = usageFile
  /\ clock = StartHour
  /\ qcall = [c \in Callers |-> NoCall]
  /\ asked = 0
  /\ lastReturn = NoReturn

PostInitAll == Init /\ QuotaInitPost /\ BuildInit /\ PostInit

PostNext ==
  \/ \E r \in Posts, file \in BOOLEAN : PostValidate(r, file) /\ UNCHANGED buildVars
  \/ \E r \in Posts, plan \in {"free", "studio"} :
       PostQuotaRead(r, "u1", "d1", "a1", plan) /\ UNCHANGED buildVars
  \/ \E r \in Posts : PostQuotaWrite(r) /\ UNCHANGED buildVars
  \/ \E r \in Posts : PostQuotaReturn(r) /\ UNCHANGED buildVars
  \/ \E r \in Posts : PostCreateStage(r) /\ UNCHANGED buildVars
  \/ \E r \in Posts : PostCreateRead(r) /\ UNCHANGED buildVars
  \/ \E r \in Posts : PostCreateWrite(r) /\ UNCHANGED buildVars
  \/ \E p \in PassIds : LoopRead(p) /\ UNCHANGED <<quotaVars, buildVars, post>>
  \/ \E p \in PassIds : Select(p) /\ UNCHANGED <<quotaVars, buildVars, post>>
  \/ \E p \in PassIds : MarkRunning(p) /\ UNCHANGED <<quotaVars, buildVars, post>>
  \/ \E p \in PassIds : Build(p) /\ UNCHANGED <<quotaVars, buildVars, post>>
  \/ \E p \in PassIds : MarkDone(p) /\ UNCHANGED <<quotaVars, buildVars, post>>
  \/ \E p \in PassIds : Cleanup(p) /\ UNCHANGED <<quotaVars, buildVars, post>>

SpecPost == PostInitAll /\ [][PostNext]_allVars

\* Requests answered with `status`.
Answered(status) == {r \in Posts : post[r].response = status}

\* Job ids createJob has drawn, and the request each belongs to.
Drawn == 1..(nextId - 1)
Submitter(j) == {r \in Posts : post[r].job = j}

\* C28: every job id drawn, and so every record of jobs.json and every
\* staging directory, belongs to one request that carried a file and whose
\* consumeQuota call was allowed; a request answered 400 or 429 has drawn no
\* job, and the step that answers it changes nothing of the Job Store and
\* of the staging area; consumeQuota has been called once per request that
\* carried a file, never for a request without one, and the step that
\* answers 400 leaves usage.json as it was.
C28_RejectedCreatesNothing ==
  /\ [](/\ \A j \in Drawn :
             /\ Cardinality(Submitter(j)) = 1
             /\ \A r \in Submitter(j) : post[r].file /\ post[r].allowed
        /\ queueDirs \subseteq Drawn
        /\ \A i \in 1..Len(jobsFile) : jobsFile[i].id \in Drawn
        /\ \A r \in Answered(400) \cup Answered(429) : post[r].job = 0
        /\ \A r \in Answered(429) : ~post[r].allowed
        /\ asked = Cardinality({r \in Posts : post[r].file /\ post[r].pc # "consumeQuota"})
        /\ \A r \in Posts : ~post[r].file => qcall[r] = NoCall)
  /\ [][\A r \in Posts :
          (post[r].response = 0 /\ post'[r].response \in {400, 429}) =>
            /\ UNCHANGED <<jobsFile, queueDirs, nextId>>
            /\ post'[r].response = 400 => UNCHANGED <<usageFile, qcall, asked>>]_allVars

\* One request has been answered 400 and another 429, and nothing was created.
C28_Witness ==
  /\ Answered(400) # {} /\ Answered(429) # {}
  /\ nextId = 1 /\ queueDirs = {} /\ jobsFile = <<>>

(***************************************************************************)
(* The engine after a crash: the process died while job 1 was being built  *)
(* and has been started again.  jobs.json and the staging area are as the  *)
(* dead process left them, the flag and every local are fresh.             *)
(***************************************************************************)
CrashInit ==
  /\ now = 1
  /\ jobsFile = <<runningJob(queuedJob(1, 1), 1)>>
  /\ isProcessing = FALSE
  /\ queueDirs = {1}
  /\ artifactDirs = {}
  /\ nextId = 2
  /\ cpc = [j \in JobIds |-> IF j = 1 THEN "done" ELSE "idle"]
  /\ ctime = [j \in JobIds |-> IF j = 1 THEN 1 ELSE 0]
  /\ cjobs = [j \in JobIds |-> <<>>]
  /\ wpc = [p \in PassIds |-> "idle"]
  /\ wjobs = [p \in PassIds |-> <<>>]
  /\ wjob = [p \in PassIds |-> NoJob]
  /\ ujobs = [p \in PassIds |-> <<>>]
  /\ lastWritten = [j \in JobIds |-> "none"]
  /\ lastCall = "none"
  /\ passAlone = FALSE
  /\ passQueued = {}

RestartInit == CrashInit /\ QuotaInit /\ BuildInit /\ PostInit

SpecCrash == RestartInit /\ [][Next]_allVars

\* C31: the job the crash left running is never the job a pass selects or
\* hands to updateJob, no write gives it another status, its startedAt stays,
\* and it is running in every later state.
C31_OrphanStaysRunning ==
  /\ getJob(jobsFile, 1) = runningJob(queuedJob(1, 1), 1)
  /\ \A p \in PassIds :
       /\ wjob[p].id # 1
       /\ wpc[p] = "select" => nextQueued(wjobs[p]).id # 1
  /\ lastWritten[1] = "none"
  /\ 1 \in queueDirs /\ 1 \notin artifactDirs

\* A pass has taken a later job to its end and returned, and the job of
\* the crash is still running.
C31_Witness ==
  /\ ~isProcessing /\ ActivePasses = {}
  /\ \E j \in JobIds \ {1} : StatusOf(jobsFile, j) \in Terminal
  /\ StatusOf(jobsFile, 1) = "running"

\* Lines 929-932: getArtifactPath, the path as the job id and the file name,
\* Null for null.
Null == <<>>

getArtifactPath(job) == IF job.artifact = "" THEN Null ELSE <<job.id, job.artifact>>

\* C36: every job stored completed has its artifact in the artifact store
\* under its id and a path from getArtifactPath; getArtifactPath gives null
\* for every job stored queued, running or failed.
C36_ArtifactBeforeCompleted ==
  \A i \in 1..Len(jobsFile) :
    /\ jobsFile[i].status = "completed" =>
         /\ jobsFile[i].id \in artifactDirs
         /\ getArtifactPath(jobsFile[i]) = <<jobsFile[i].id, "apk">>
    /\ jobsFile[i].status \in {"queued", "running", "failed"} =>
         getArtifactPath(jobsFile[i]) = Null

\* jobs.json holds a completed job, its artifact stored, next to a job that
\* is running.
C36_Witness ==
  /\ \E i \in 1..Len(jobsFile) :
       jobsFile[i].status = "completed" /\ jobsFile[i].id \in artifactDirs
  /\ \E i \in 1..Len(jobsFile) : jobsFile[i].status = "running"

(***************************************************************************)
(* The two routes that charge the quota: POST /api/builds, which queues,   *)
(* and the convert route, which builds before it answers.  Both call       *)
(* consumeQuota of the same module, on the same usage.json.                *)
(***************************************************************************)
\* Convert route, lines 16-33: the form is read; no file is answered 400.
ConvertValidate(r, file) ==
  /\ post[r].pc = "idle"
  /\ \A b \in Posts : b < r => post[b].pc # "idle"
  /\ post' = [post EXCEPT ![r] =
       IF validated(file)
       THEN [NoPost EXCEPT !.pc = "convertQuota", !.file = file]
       ELSE [NoPost EXCEPT !.pc = "done", !.file = file, !.response = 400]]
  /\ UNCHANGED <<vars, quotaVars>>

\* Convert route, line 34: consumeQuota, up to its readUsage.
ConvertQuotaRead(r, userId, deviceId, ip, plan) ==
  /\ post[r].pc = "convertQuota"
  /\ QRead(r, userId, deviceId, ip, plan)
  /\ asked' = asked + 1
  /\ post' = [post EXCEPT ![r].pc = "convertCheck"]
  /\ UNCHANGED vars

\* consumeQuota's writeUsage, for an allowed call.
ConvertQuotaWrite(r) ==
  /\ post[r].pc = "convertCheck"
  /\ QWrite(r)
  /\ UNCHANGED <<vars, post>>

\* Convert route, lines 34-44: consumeQuota returns; not allowed is 429.
ConvertQuotaReturn(r) ==
  /\ post[r].pc = "convertCheck"
  /\ QReturn(r)
  /\ post' = [post EXCEPT ![r] =
       IF qcall[r].allowed
       THEN [@ EXCEPT !.pc = "runAndroidBuild", !.allowed = TRUE]
       ELSE [@ EXCEPT !.pc = "done", !.response = 429]]
  /\ UNCHANGED vars

\* Convert route, lines 46-72: runAndroidBuild returns the APK, answered
\* 200, or throws, answered 500 from the catch.
ConvertBuild(r) ==
  /\ post[r].pc = "runAndroidBuild"
  /\ \E ok \in BOOLEAN :
       post' = [post EXCEPT ![r].pc = "done", ![r].response = IF ok THEN 200 ELSE 500]
  /\ UNCHANGED <<vars, quotaVars>>

\* POST /api/builds, lines 83-86: createJob rejects, at its staging, at its
\* readJobs or at its writeJobs, and the catch answers 500.
PostCreateThrows(r) ==
  /\ post[r].pc \in {"createJob", "staged", "read"}
  /\ post' = [post EXCEPT ![r].pc = "done", ![r].response = 500]
  /\ IF post[r].pc = "createJob"
     THEN UNCHANGED <<cpc, cjobs>>
     ELSE /\ cpc' = [cpc EXCEPT ![post[r].job] = "done"]
          /\ cjobs' = [cjobs EXCEPT ![post[r].job] = <<>>]
  /\ passAlone' = FALSE
  /\ passQueued' = {}
  /\ UNCHANGED <<now, jobsFile, isProcessing, queueDirs, artifactDirs, nextId, ctime,
                 wpc, wjobs, wjob, ujobs, lastWritten, lastCall>>
  /\ UNCHANGED quotaVars

ChargeNext ==
  \/ \E r \in Posts, file \in BOOLEAN : PostValidate(r, file) /\ UNCHANGED buildVars
  \/ \E r \in Posts : PostQuotaRead(r, "u1", "d1", "a1", "free") /\ UNCHANGED buildVars
  \/ \E r \in Posts : PostQuotaWrite(r) /\ UNCHANGED buildVars
  \/ \E r \in Posts : PostQuotaReturn(r) /\ UNCHANGED buildVars
  \/ \E r \in Posts : PostCreateStage(r) /\ UNCHANGED buildVars
  \/ \E r \in Posts : PostCreateRead(r) /\ UNCHANGED buildVars
  \/ \E r \in Posts : PostCreateWrite(r) /\ UNCHANGED buildVars
  \/ \E r \in Posts : PostCreateThrows(r) /\ UNCHANGED buildVars
  \/ \E r \in Posts, file \in BOOLEAN : ConvertValidate(r, file) /\ UNCHANGED buildVars
  \/ \E r \in Posts : ConvertQuotaRead(r, "u1", "d1", "a1", "free") /\ UNCHANGED buildVars
  \/ \E r \in Posts : ConvertQuotaWrite(r) /\ UNCHANGED buildVars
  \/ \E r \in Posts : ConvertQuotaReturn(r) /\ UNCHANGED buildVars
  \/ \E r \in Posts : ConvertBuild(r) /\ UNCHANGED buildVars
  \/ \E p \in PassIds : LoopRead(p) /\ UNCHANGED <<quotaVars, buildVars, post>>
  \/ \E p \in PassIds : Select(p) /\ UNCHANGED <<quotaVars, buildVars, post>>
  \/ \E p \in PassIds : MarkRunning(p) /\ UNCHANGED <<quotaVars, buildVars, post>>
  \/ \E p \in PassIds : Build(p) /\ UNCHANGED <<quotaVars, buildVars, post>>
  \/ \E p \in PassIds : MarkDone(p) /\ UNCHANGED <<quotaVars, buildVars, post>>
  \/ \E p \in PassIds : Cleanup(p) /\ UNCHANGED <<quotaVars, buildVars, post>>

\* usage.json with room for two more builds, or for one.
QuotaInitCharge ==
  /\ \E w \in {FreeLimit - 2, FreeLimit - 1} : usageFile = usageAfter(w, w)
  /\ granted = usageFile
  /\ clock = StartHour
  /\ qcall = [c \in Callers |-> NoCall]
  /\ asked = 0
  /\ lastReturn = NoReturn

ChargeInit == Init /\ QuotaInitCharge /\ BuildInit /\ PostInit

SpecCharge == ChargeInit /\ [][ChargeNext]_allVars

\* Every counter of a is at least the counter of b.
AtLeast(a, b) ==
  /\ \A u \in UserIds, w \in WeekKeys : a.user[u][w] >= b.user[u][w]
  /\ \A d \in DeviceIds, w \in WeekKeys : a.device[d][w] >= b.device[d][w]
  /\ \A i \in Ips, h \in HourKeys : a.ipHourly[i][h] >= b.ipHourly[i][h]

\* C38: no step of either route, of createJob or of the worker lowers a
\* counter of usage.json; and whenever no consumeQuota call is under way,
\* usage.json counts every submission that consumeQuota has allowed, on
\* either route, whatever became of it afterwards: a job that ended failed,
\* a createJob that threw, a synchronous build that threw.
C38_ChargedNeverRefunded ==
  /\ [][AtLeast(usageFile', usageFile)]_allVars
  /\ [](QuotaIdle => AtLeast(usageFile, granted))

(***************************************************************************)
(* A pass that an exception ends.  readJobs and writeJobs reject when the  *)
(* readFile or writeFile under them does (lines 737 and 748).  Line 912 is *)
(* inside the inner try, so a failed write of the completed record goes to *)
(* the catch block, which marks the job failed; everywhere else in the     *)
(* loop the rejection leaves processQueue through the finally of lines     *)
(* 924-926, and lastCall records that the call threw.                      *)
(***************************************************************************)
StoreThrowsNoFinally(p) ==
  /\ wpc[p] \in {"readJobs", "select", "markRunning", "markDone"}
  /\ IF wpc[p] = "markDone" /\ wjob[p].status = "completed"
     THEN /\ \E t \in DateNow :
               /\ now' = t
               /\ wjob' = [wjob EXCEPT ![p] =
                            failedJob([@ EXCEPT !.completedAt = 0, !.artifact = ""], t)]
          /\ ujobs' = [ujobs EXCEPT ![p] = jobsFile]
          /\ UNCHANGED <<isProcessing, wpc, wjobs, lastCall>>
     ELSE /\ wpc' = [wpc EXCEPT ![p] = "idle"]
          /\ isProcessing' = isProcessing
          /\ wjobs' = [wjobs EXCEPT ![p] = <<>>]
          /\ wjob' = [wjob EXCEPT ![p] = NoJob]
          /\ ujobs' = [ujobs EXCEPT ![p] = <<>>]
          /\ lastCall' = "threw"
          /\ UNCHANGED now
  /\ passAlone' = FALSE
  /\ passQueued' = {}
  /\ UNCHANGED <<jobsFile, queueDirs, artifactDirs, nextId, cpc, ctime, cjobs,
                 lastWritten>>

StoreThrows(p) ==
  /\ wpc[p] \in {"readJobs", "select", "markRunning", "markDone"}
  /\ IF wpc[p] = "markDone" /\ wjob[p].status = "completed"
     THEN /\ \E t \in DateNow :
               /\ now' = t
               /\ wjob' = [wjob EXCEPT ![p] =
                            failedJob([@ EXCEPT !.completedAt = 0, !.artifact = ""], t)]
          /\ ujobs' = [ujobs EXCEPT ![p] = jobsFile]
          /\ UNCHANGED <<isProcessing, wpc, wjobs, lastCall>>
     ELSE /\ wpc' = [wpc EXCEPT ![p] = "idle"]
          /\ isProcessing' = FALSE
          /\ wjobs' = [wjobs EXCEPT ![p] = <<>>]
          /\ wjob' = [wjob EXCEPT ![p] = NoJob]
          /\ ujobs' = [ujobs EXCEPT ![p] = <<>>]
          /\ lastCall' = "threw"
          /\ UNCHANGED now
  /\ passAlone' = FALSE
  /\ passQueued' = {}
  /\ UNCHANGED <<jobsFile, queueDirs, artifactDirs, nextId, cpc, ctime, cjobs,
                 lastWritten>>

FaultNext ==
  \/ \E j \in JobIds : CreateStage(j) /\ UNCHANGED <<quotaVars, buildVars, post>>
  \/ \E j \in JobIds : CreateRead(j) /\ UNCHANGED <<quotaVars, buildVars, post>>
  \/ \E j \in JobIds : CreateWrite(j) /\ UNCHANGED <<quotaVars, buildVars, post>>
  \/ ListRoute /\ UNCHANGED <<quotaVars, buildVars, post>>
  \/ \E id \in JobIds : JobRoute(id) /\ UNCHANGED <<quotaVars, buildVars, post>>
  \/ \E p \in PassIds : LoopRead(p) /\ UNCHANGED <<quotaVars, buildVars, post>>
  \/ \E p \in PassIds : Select(p) /\ UNCHANGED <<quotaVars, buildVars, post>>
  \/ \E p \in PassIds : MarkRunning(p) /\ UNCHANGED <<quotaVars, buildVars, post>>
  \/ \E p \in PassIds : Build(p) /\ UNCHANGED <<quotaVars, buildVars, post>>
  \/ \E p \in PassIds : MarkDone(p) /\ UNCHANGED <<quotaVars, buildVars, post>>
  \/ \E p \in PassIds : Cleanup(p) /\ UNCHANGED <<quotaVars, buildVars, post>>
  \/ \E p \in PassIds : StoreThrows(p) /\ UNCHANGED <<quotaVars, buildVars, post>>

SpecFault == QueueInit /\ [][FaultNext]_allVars

\* A step in which processQueue is called and shows it: a pass starts, or
\* the call returns at once, from a poll after a call that did not or from
\* the last step of createJob.
Called ==
  \/ lastCall' = "started" /\ wpc' # wpc
  \/ /\ lastCall' = "returned"
     /\ lastCall # "returned" \/ \E j \in JobIds : cpc[j] = "read" /\ cpc'[j] = "done"

\* C37: the flag is set exactly while a pass is under way, whichever way the
\* pass before it ended, an exception out of a read or a write of jobs.json
\* included; and a processQueue call made while no pass is under way is
\* never turned away: it starts a pass.
C37_FlagOnlyWhilePassActive ==
  /\ [](isProcessing <=> ActivePasses # {})
  /\ [][(ActivePasses = {} /\ Called)
          => (lastCall' = "started" /\ isProcessing' /\ ActivePasses' # {})]_allVars

\* An exception has ended a pass while its job was stored running, and the
\* flag is down.
C37_Witness ==
  /\ lastCall = "threw" /\ ~isProcessing /\ ActivePasses = {}
  /\ \E j \in JobIds : StatusOf(jobsFile, j) = "running"

(***************************************************************************)
(* The worker's pass over one job (processQueue lines 860-921) with        *)
(* runAndroidBuild (buildRunner lines 47-217) stage by stage.              *)
(***************************************************************************)
\* A throw inside runAndroidBuild's try: control goes to its finally block.
Throw(message) == thrown' = message /\ bpc' = "finally"

\* processQueue lines 860-866: the job is marked running.
BMarkRunning ==
  /\ bpc = "queued"
  /\ \E t \in DateNow : bjob' = runningJob(bjob, t)
  /\ bpc' = "load"
  /\ UNCHANGED <<command, benv, bundle, tempDir, invoked, thrown, sha256, bqueueDir, bartifact>>

\* processQueue lines 869-884: read queue/<id>/input.zip and the keystore;
\* a failed read lands in the worker's catch.
BLoad ==
  /\ bpc = "load"
  /\ IF bqueueDir
     THEN bpc' = "resolveSignerJar" /\ UNCHANGED thrown
     ELSE bpc' = "markFailed" /\ thrown' = IoError
  /\ UNCHANGED <<command, benv, bundle, tempDir, invoked, sha256, bjob, bqueueDir, bartifact>>

\* Line 50: resolveSignerJar(), lines 30-45.
BResolveSignerJar ==
  /\ bpc = "resolveSignerJar"
  /\ IF benv.signerJar
     THEN bpc' = "stage" /\ UNCHANGED thrown
     ELSE Throw(SignerMissing)
  /\ UNCHANGED <<command, benv, bundle, tempDir, invoked, sha256, bjob, bqueueDir, bartifact>>

\* Lines 52-57: create the working directory and write the bundle into it.
BStage ==
  /\ bpc = "stage"
  /\ \/ tempDir' = TRUE /\ bpc' = "inspect" /\ UNCHANGED thrown
     \/ tempDir' \in BOOLEAN /\ Throw(IoError)
  /\ UNCHANGED <<command, benv, bundle, invoked, sha256, bjob, bqueueDir, bartifact>>

\* Lines 59-67: isBundle, and for a source bundle the template check.
isBundleNever == FALSE

isBundle == bundle.marker

\* Lines 61 and 168: the APK handed to the signer, the submitted bytes or
\* the release APK gradle produced.
unsignedApkPath == IF isBundle THEN "release.apk" ELSE "input.apk"

\* The keystore files of queue/<id>.  createJob lines 797-813: keystore.jks
\* when a keystore came, keystore.json when alias and password came too.
NoMeta == [exists |-> FALSE, alias |-> <<>>, pass |-> <<>>, keyPass |-> <<>>]

stagedKeystore(params) ==
  [jks |-> params.keystore,
   json |-> IF params.keystore /\ params.alias # <<>> /\ params.pass # <<>>
            THEN [exists |-> TRUE, alias |-> params.alias, pass |-> params.pass,
                  keyPass |-> params.keyPass]
            ELSE NoMeta]

\* createJob line 827: input.hasKeystore.
hasKeystore(params) == params.keystore /\ params.alias # <<>> /\ params.pass # <<>>

\* processQueue lines 871-893: the keystore option given to runAndroidBuild,
\* NoKeystore for undefined.
NoKeystore == [buffer |-> FALSE, alias |-> <<>>, pass |-> <<>>, keyPass |-> <<>>]

keystoreOption(staged) ==
  IF staged.jks /\ staged.json.exists /\ staged.json.alias # <<>>
     /\ staged.json.pass # <<>>
  THEN [buffer |-> TRUE, alias |-> staged.json.alias, pass |-> staged.json.pass,
        keyPass |-> staged.json.keyPass]
  ELSE NoKeystore

\* runAndroidBuild lines 174-189: the command line is put together from the
\* strings as they came, with no quoting, and handed to the shell of exec,
\* which splits it into words.
signerCommand(apk, keystore) ==
  <<"-a", apk, "-o", "out">> \o
  (IF keystore.buffer /\ keystore.alias # <<>> /\ keystore.pass # <<>>
   THEN <<"--ks", "user.keystore", "--ksAlias">> \o keystore.alias \o
        <<"--ksPass">> \o keystore.pass \o
        (IF keystore.keyPass # <<>> THEN <<"--ksKeyPass">> \o keystore.keyPass ELSE <<>>)
   ELSE <<>>)

BInspect ==
  /\ bpc = "inspect"
  /\ IF isBundle
     THEN IF benv.template
          THEN bpc' = "template" /\ UNCHANGED thrown
          ELSE Throw(TemplateMissing)
     ELSE bpc' = "sign" /\ UNCHANGED thrown
  /\ UNCHANGED <<command, benv, bundle, tempDir, invoked, sha256, bjob, bqueueDir, bartifact>>

\* Lines 69-147: copy the template and fill it from the bundle.
BTemplate ==
  /\ bpc = "template"
  /\ \/ bpc' = "toolchain" /\ UNCHANGED thrown
     \/ Throw(IoError)
  /\ UNCHANGED <<command, benv, bundle, tempDir, invoked, sha256, bjob, bqueueDir, bartifact>>

\* Lines 149-155: ANDROID_HOME || ANDROID_SDK_ROOT, or throw.
BToolchain ==
  /\ bpc = "toolchain"
  /\ IF benv.androidHome
     THEN bpc' = "compile" /\ UNCHANGED thrown
     ELSE Throw(ToolchainMissing)
  /\ UNCHANGED <<command, benv, bundle, tempDir, invoked, sha256, bjob, bqueueDir, bartifact>>

\* Lines 157-160: gradle :app:assembleRelease.
BCompile ==
  /\ bpc = "compile"
  /\ invoked' = Append(invoked, "compiler")
  /\ \/ bpc' = "locate" /\ UNCHANGED thrown
     \/ Throw(CommandFailed)
  /\ UNCHANGED <<command, benv, bundle, tempDir, sha256, bjob, bqueueDir, bartifact>>

\* Lines 162-168: find the release APK gradle produced.
BLocate ==
  /\ bpc = "locate"
  /\ \/ bpc' = "sign" /\ UNCHANGED thrown
     \/ Throw(NoApk)
  /\ UNCHANGED <<command, benv, bundle, tempDir, invoked, sha256, bjob, bqueueDir, bartifact>>

\* Lines 171-189: build the signer command and run it.
BSign ==
  /\ bpc = "sign"
  /\ invoked' = Append(invoked, "signer")
  /\ command' = signerCommand(unsignedApkPath, keystoreOption(stagedKeystore(bundle)))
  /\ \/ bpc' = "locateSigned" /\ UNCHANGED thrown
     \/ Throw(CommandFailed)
  /\ UNCHANGED <<benv, bundle, tempDir, sha256, bjob, bqueueDir, bartifact>>

\* Lines 191-198: find and read the signed APK.
BLocateSigned ==
  /\ bpc = "locateSigned"
  /\ \/ bpc' = "verify" /\ UNCHANGED thrown
     \/ Throw(NoSignedApk)
  /\ UNCHANGED <<command, benv, bundle, tempDir, invoked, sha256, bjob, bqueueDir, bartifact>>

\* Lines 200-213: run the verifier for the hash, best effort, and return.
BVerifyFatal ==
  /\ bpc = "verify"
  /\ invoked' = Append(invoked, "verifier")
  /\ \/ sha256' \in {"hash", Unknown} /\ bpc' = "finally" /\ UNCHANGED thrown
     \/ sha256' = Unknown /\ Throw(CommandFailed)
  /\ UNCHANGED <<command, benv, bundle, tempDir, bjob, bqueueDir, bartifact>>

\* The verifier exits non-zero (the catch of line 205), or its report has a
\* SHA256 line or none (lines 203-204).
BVerify ==
  /\ bpc = "verify"
  /\ invoked' = Append(invoked, "verifier")
  /\ \E report \in {"failed", "no SHA256 line", "SHA256 line"} :
       sha256' = IF report = "SHA256 line" THEN "hash" ELSE Unknown
  /\ bpc' = "finally"
  /\ UNCHANGED <<command, benv, bundle, tempDir, thrown, bjob, bqueueDir, bartifact>>

\* Lines 214-216: remove the working directory; the call settles.
BFinallyOnReturn ==
  /\ bpc = "finally"
  /\ tempDir' = IF thrown = "" THEN FALSE ELSE tempDir
  /\ bpc' = IF thrown = "" THEN "store" ELSE "markFailed"
  /\ UNCHANGED <<command, benv, bundle, invoked, thrown, sha256, bjob, bqueueDir,
                 bartifact>>

BFinally ==
  /\ bpc = "finally"
  /\ tempDir' = FALSE
  /\ bpc' = IF thrown = "" THEN "store" ELSE "markFailed"
  /\ UNCHANGED <<command, benv, bundle, invoked, thrown, sha256, bjob, bqueueDir, bartifact>>

\* processQueue lines 897-900: write the artifact.
BStore ==
  /\ bpc = "store"
  /\ \/ bartifact' = TRUE /\ bpc' = "markCompleted" /\ UNCHANGED thrown
     \/ bartifact' \in {bartifact, TRUE} /\ bpc' = "markFailed" /\ thrown' = IoError
  /\ UNCHANGED <<command, benv, bundle, tempDir, invoked, sha256, bjob, bqueueDir>>

\* processQueue lines 902-912: the job is marked completed.
BMarkCompleted ==
  /\ bpc = "markCompleted"
  /\ \E t \in DateNow : bjob' = completedWith(bjob, t, sha256)
  /\ bpc' = "cleanup"
  /\ UNCHANGED <<command, benv, bundle, tempDir, invoked, thrown, sha256, bqueueDir, bartifact>>

\* processQueue line 913: rm(jobDir).
BCleanup ==
  /\ bpc = "cleanup"
  /\ bqueueDir' = FALSE
  /\ bpc' = "done"
  /\ UNCHANGED <<command, benv, bundle, tempDir, invoked, thrown, sha256, bjob, bartifact>>

\* processQueue lines 914-921: the catch block marks the job failed.
BMarkFailed ==
  /\ bpc = "markFailed"
  /\ \E t \in DateNow : bjob' = failedWith(bjob, t, thrown)
  /\ bpc' = "done"
  /\ UNCHANGED <<command, benv, bundle, tempDir, invoked, thrown, sha256, bqueueDir, bartifact>>

BuildNext ==
  \/ BMarkRunning /\ UNCHANGED <<vars, quotaVars, post>>
  \/ BLoad /\ UNCHANGED <<vars, quotaVars, post>>
  \/ BResolveSignerJar /\ UNCHANGED <<vars, quotaVars, post>>
  \/ BStage /\ UNCHANGED <<vars, quotaVars, post>>
  \/ BInspect /\ UNCHANGED <<vars, quotaVars, post>>
  \/ BTemplate /\ UNCHANGED <<vars, quotaVars, post>>
  \/ BToolchain /\ UNCHANGED <<vars, quotaVars, post>>
  \/ BCompile /\ UNCHANGED <<vars, quotaVars, post>>
  \/ BLocate /\ UNCHANGED <<vars, quotaVars, post>>
  \/ BSign /\ UNCHANGED <<vars, quotaVars, post>>
  \/ BLocateSigned /\ UNCHANGED <<vars, quotaVars, post>>
  \/ BVerify /\ UNCHANGED <<vars, quotaVars, post>>
  \/ BFinally /\ UNCHANGED <<vars, quotaVars, post>>
  \/ BStore /\ UNCHANGED <<vars, quotaVars, post>>
  \/ BMarkCompleted /\ UNCHANGED <<vars, quotaVars, post>>
  \/ BCleanup /\ UNCHANGED <<vars, quotaVars, post>>
  \/ BMarkFailed /\ UNCHANGED <<vars, quotaVars, post>>

\* Any installation and any bundle.
BuildInitAny ==
  /\ benv \in [signerJar : BOOLEAN, template : BOOLEAN, androidHome : BOOLEAN]
  /\ bundle \in [marker : BOOLEAN, keystore : BOOLEAN, alias : {<<>>, <<"a">>},
                 pass : {<<>>, <<"p">>, <<"p", "--ksKeyPass", "k">>},
                 keyPass : {<<>>, <<"k">>}]
  /\ BuildFresh

BuildAnyInit == Init /\ QuotaInit /\ BuildInitAny /\ PostInit

SpecBuild == BuildAnyInit /\ [][BuildNext]_allVars

Tools == {invoked[i] : i \in 1..Len(invoked)}

\* C11: a source bundle built on an installation with no toolchain root never
\* has the compiler or the signer run; when nothing else is missing and no
\* file operation fails, its job ends failed with the error that names the
\* toolchain root, and once the worker is done with the job queue/<id> is gone.
C11_NoToolchainFailsClean ==
  (isBundle /\ ~benv.androidHome) =>
    /\ "compiler" \notin Tools /\ "signer" \notin Tools
    /\ (bpc = "done" /\ benv.signerJar /\ benv.template /\ thrown = ToolchainMissing)
       => /\ bjob.status = "failed"
          /\ bjob.error = ToolchainMissing
          /\ ~bqueueDir

\* What does hold of C11: no compiler, no signer, and the job failed with the
\* error naming the toolchain root.
NoToolchainFailsExplicit ==
  (isBundle /\ ~benv.androidHome) =>
    /\ "compiler" \notin Tools /\ "signer" \notin Tools
    /\ (bpc = "done" /\ benv.signerJar /\ benv.template /\ thrown = ToolchainMissing)
       => bjob.status = "failed" /\ bjob.error = ToolchainMissing

\* The call of runAndroidBuild has settled: it returned or it threw, and the
\* worker is past it.
Settled == bpc \in {"store", "markCompleted", "cleanup", "markFailed", "done"}

\* C32: reading the hash off the signed APK is best effort.  Once the
\* verifier has been invoked the pipeline returns: it throws nothing, and the
\* hash it returns is the one of the report or the sentinel.  Nothing but a
\* failed write of the artifact can fail the job after that, so a job whose
\* hash is the sentinel and whose artifact was written ends completed, its
\* artifact stored and carrying the sentinel.
C32_HashBestEffort ==
  /\ (bpc = "finally" /\ "verifier" \in Tools) => thrown = "" /\ sha256 \in {"hash", Unknown}
  /\ ("verifier" \in Tools /\ thrown # "") => thrown = IoError /\ bpc \in {"markFailed", "done"}
  /\ bjob.status = "completed" => bartifact /\ bjob.artifact = sha256
  /\ (bpc = "done" /\ sha256 = Unknown /\ thrown = "")
       => bjob.status = "completed" /\ bjob.artifact = Unknown

\* A job has ended completed with the sentinel for its hash.
C32_Witness == bpc = "done" /\ bjob.status = "completed" /\ bjob.artifact = Unknown

C34_CompileIffMarker ==
  /\ ~bundle.marker =>
       /\ bpc \notin {"template", "toolchain", "compile", "locate"}
       /\ "compiler" \notin Tools
       /\ thrown \notin {TemplateMissing, ToolchainMissing, NoApk}
       /\ "signer" \in Tools => command[2] = "input.apk"
  /\ bundle.marker =>
       /\ bpc = "sign" => invoked = <<"compiler">> /\ thrown = ""
       /\ "signer" \in Tools => invoked[1] = "compiler" /\ command[2] = "release.apk"
       /\ thrown = NoApk =>
            /\ invoked = <<"compiler">>
            /\ bpc = "done" => bjob.status = "failed" /\ bjob.error = NoApk

\* A source bundle was compiled and signed, and its job completed.
C34_Witness ==
  /\ bundle.marker /\ bjob.status = "completed"
  /\ invoked[1] = "compiler" /\ command[2] = "release.apk"

\* All three of keystore, alias and store password came with the submission.
Supplied == bundle.keystore /\ bundle.alias # <<>> /\ bundle.pass # <<>>

\* The keystore flags among the words the signer is started with.
Flags ==
  {command[i] : i \in 1..Len(command)} \cap {"--ks", "--ksAlias", "--ksPass", "--ksKeyPass"}

\* C35: through the staging of createJob and the reload of the worker, the
\* signer is started with the keystore flags exactly when keystore, alias and
\* store password all came with the submission, and with no keystore flag
\* otherwise; it is started with the key password flag exactly when, besides,
\* a key password that is not empty came; input.hasKeystore is true in the
\* first case only.
C35_KeystoreFlags ==
  /\ hasKeystore(bundle) <=> Supplied
  /\ "signer" \in Tools =>
       /\ {"--ks", "--ksAlias", "--ksPass"} \subseteq Flags <=> Supplied
       /\ ~Supplied => Flags = {}
       /\ "--ksKeyPass" \in Flags <=> (Supplied /\ bundle.keyPass # <<>>)

\* What does hold of C35: the same, for a submission whose alias and
\* passwords are one word each.
PlainWords == Len(bundle.alias) <= 1 /\ Len(bundle.pass) <= 1 /\ Len(bundle.keyPass) <= 1

KeystoreFlagsOfPlainWords == PlainWords => C35_KeystoreFlags

====
